---- MODULE Spec2Model ----
(***************************************************************************)
(* A model of the participle parsing core: the PeekingLexer (two-cursor    *)
(* token stream with elision and checkpoints) and the grammar-node tree    *)
(* (sequence, disjunction, group, lookahead, negation, literal, reference, *)
(* capture, struct, custom productions) that parses against it.            *)
(***************************************************************************)
EXTENDS Integers, Sequences, FiniteSets, TLC

VARIABLES
    p,        \* SpecLex: the PeekingLexer under test
    prev,     \* SpecLex: the PeekingLexer before the last operation
    ret,      \* SpecLex: what the last operation was and what it returned
    saved,    \* SpecLex: the checkpoints MakeCheckpoint has handed out
    g,        \* Spec: the grammar node that is parsed
    ctx,      \* Spec: the root parseContext
    heap,     \* Spec: the records allocated so far (reflect.Value structs)
    pre,      \* Spec: context and heap on entry to the last Parse call
    res,      \* Spec: what the last Parse call returned
    pc,       \* Spec: "ready" before the Parse call, "done" after it
    loop,     \* SpecGroup: the state of the loop of group.Parse
    iters,    \* SpecGroup: how often the loop body of group.Parse has run
    peekingLexerPool  \* SpecPool: the instances put back for reuse

vars == <<p, prev, ret, saved, g, ctx, heap, pre, res, pc, loop, iters,
          peekingLexerPool>>

lexVars == <<p, prev, ret, saved, peekingLexerPool>>
parseVars == <<g, ctx, heap, pre, res, pc, loop, iters>>

----------------------------------------------------------------------------
(* Bounds of the model. *)

\* Longest token stream (not counting the closing EOF token).
MaxLen == 3

\* Most checkpoints kept at once in SpecLex.
MaxSaved == 2

----------------------------------------------------------------------------
(* Tokens.  A token type is a tag; EOF is the lexer's distinguished type,   *)
(* which literal nodes also use to mean "untyped".                         *)

EOF == "EOF"
Ident == "Ident"
WS == "WS"

Token(type, value, pos) == [Type |-> type, Value |-> value, Pos |-> pos]

\* Token.EOF()
IsEOF(t) == t.Type = EOF

\* What a read outside the token array yields (Go panics: index out of range).
OutOfRange == Token("OutOfRange", "", -1)

\* The (type, value) pairs a lexer may produce.
Alphabet == { <<Ident, "a">>, <<Ident, "b">>, <<WS, " ">> }

\* The elide lists handed to Upgrade.
ElideSets == SUBSET {Ident, WS, EOF}

RECURSIVE SeqsUpTo(_, _)
SeqsUpTo(S, n) ==
    IF n = 0 THEN { <<>> }
    ELSE LET shorter == SeqsUpTo(S, n - 1)
         IN  shorter \cup { Append(s, x) : s \in {t \in shorter : Len(t) = n - 1}, x \in S }

\* The token producers: every stream of at most MaxLen tokens, closed by EOF.
Producer(raw) ==
    [i \in 1..(Len(raw) + 1) |->
        IF i <= Len(raw) THEN Token(raw[i][1], raw[i][2], i - 1)
        ELSE Token(EOF, "", i - 1)]

Producers == { Producer(raw) : raw \in SeqsUpTo(Alphabet, MaxLen) }

----------------------------------------------------------------------------
(* PeekingLexer *)

Checkpoint(rawCursor, nextCursor, cursor) ==
    [rawCursor |-> rawCursor, nextCursor |-> nextCursor, cursor |-> cursor]

\* p.tokens[i], with Go's zero-based index
TokenAt(l, i) ==
    IF i >= 0 /\ i < Len(l.tokens) THEN l.tokens[i + 1] ELSE OutOfRange

Elided(l, t) == t.Type \in l.elide

\* advanceToNonElided that looks at the elide set before it looks for EOF
RECURSIVE advanceToNonElidedPastEOF(_)
advanceToNonElidedPastEOF(l) ==
    LET t == TokenAt(l, l.nextCursor)
    IN  IF t = OutOfRange \/ ~Elided(l, t) THEN l
        ELSE advanceToNonElidedPastEOF([l EXCEPT !.nextCursor = @ + 1])

RECURSIVE advanceToNonElided(_)
advanceToNonElided(l) ==
    LET t == TokenAt(l, l.nextCursor)
    IN  IF t = OutOfRange \/ IsEOF(t) \/ ~Elided(l, t) THEN l
        ELSE advanceToNonElided([l EXCEPT !.nextCursor = @ + 1])

\* The tokens the producer yields up to and including its first EOF.
RECURSIVE UpToEOF(_, _)
UpToEOF(lex, i) ==
    IF i > Len(lex) THEN <<>>
    ELSE IF IsEOF(lex[i]) THEN <<lex[i]>>
    ELSE <<lex[i]>> \o UpToEOF(lex, i + 1)

fillInPeekingLexer(lex, r, elide) ==
    advanceToNonElided([r EXCEPT !.elide = @ \cup elide,
                                 !.tokens = @ \o UpToEOF(lex, 1)])

Upgrade(lex, elide) ==
    fillInPeekingLexer(lex,
        [tokens |-> <<>>, elide |-> {}, rawCursor |-> 0, nextCursor |-> 0, cursor |-> 0],
        elide)

\* peekingLexerPool.New
NewPeekingLexer ==
    [tokens |-> <<>>, elide |-> {}, rawCursor |-> 0, nextCursor |-> 0, cursor |-> 0]

\* UpgradePooled that leaves the elide map of the instance as it is
UpgradePooledKeepsElide(lex, r, elide) ==
    fillInPeekingLexer(lex,
        [r EXCEPT !.rawCursor = 0, !.nextCursor = 0, !.cursor = 0,
                  !.tokens = SubSeq(@, 1, 0)],
        elide)

\* UpgradePooled; r is the instance peekingLexerPool.Get() returned
UpgradePooled(lex, r, elide) ==
    fillInPeekingLexer(lex,
        [r EXCEPT !.rawCursor = 0, !.nextCursor = 0, !.cursor = 0,
                  !.tokens = SubSeq(@, 1, 0),
                  !.elide = {}],
        elide)

\* PutBackPooledPeekingLexer: the pool afterwards
PutBackPooledPeekingLexer(pool, r) == pool \cup {r}

\* Peek that reads at the raw cursor
PeekAtRawCursor(l) == TokenAt(l, l.rawCursor)

Peek(l) == TokenAt(l, l.nextCursor)

RawPeek(l) == TokenAt(l, l.rawCursor)

\* Next that does not count the token it returns
PeekingLexerNextKeepsCursor(l) ==
    LET t == TokenAt(l, l.nextCursor)
    IN  IF IsEOF(t) \/ t = OutOfRange THEN [l |-> l, t |-> t]
        ELSE [l |-> advanceToNonElided([l EXCEPT !.nextCursor = l.nextCursor + 1,
                                                 !.rawCursor = l.nextCursor + 1]),
              t |-> t]

\* Next that moves the raw cursor by one instead of past the returned token
PeekingLexerNextRawByOne(l) ==
    LET t == TokenAt(l, l.nextCursor)
    IN  IF IsEOF(t) \/ t = OutOfRange THEN [l |-> l, t |-> t]
        ELSE [l |-> advanceToNonElided([l EXCEPT !.nextCursor = l.nextCursor + 1,
                                                 !.rawCursor = l.rawCursor + 1,
                                                 !.cursor = @ + 1]),
              t |-> t]

\* PeekingLexer.Next: the lexer afterwards and the token returned
PeekingLexerNext(l) ==
    LET t == TokenAt(l, l.nextCursor)
    IN  IF IsEOF(t) \/ t = OutOfRange THEN [l |-> l, t |-> t]
        ELSE [l |-> advanceToNonElided([l EXCEPT !.nextCursor = l.nextCursor + 1,
                                                 !.rawCursor = l.nextCursor + 1,
                                                 !.cursor = @ + 1]),
              t |-> t]

\* PeekAny; the predicate is given as the set of (type, value) pairs it accepts
RECURSIVE PeekAnyFrom(_, _, _)
PeekAnyFrom(l, i, match) ==
    LET t == TokenAt(l, i)
    IN  IF t = OutOfRange \/ IsEOF(t) \/ <<t.Type, t.Value>> \in match \/ ~Elided(l, t)
        THEN [t |-> t, rawCursor |-> i]
        ELSE PeekAnyFrom(l, i + 1, match)

\* PeekAny that starts its scan at the next cursor
PeekAnyFromNextCursor(l, match) == PeekAnyFrom(l, l.nextCursor, match)

PeekAny(l, match) == PeekAnyFrom(l, l.rawCursor, match)

RECURSIVE FastForwardLoop(_, _)
FastForwardLoop(l, rawCursor) ==
    IF l.rawCursor <= rawCursor
    THEN LET t == TokenAt(l, l.rawCursor)
         IN  IF IsEOF(t) \/ t = OutOfRange THEN l
             ELSE FastForwardLoop(
                    [l EXCEPT !.rawCursor = @ + 1,
                              !.cursor = IF ~Elided(l, t) THEN @ + 1 ELSE @],
                    rawCursor)
    ELSE l

\* FastForward that leaves the next cursor on the raw cursor (no re-skip of
\* elided tokens)
FastForwardNoSkip(l, rawCursor) ==
    LET m == FastForwardLoop(l, rawCursor)
    IN  [m EXCEPT !.nextCursor = m.rawCursor]

\* FastForward that counts every token it passes, elided or not
RECURSIVE FastForwardLoopCountsAll(_, _)
FastForwardLoopCountsAll(l, rawCursor) ==
    IF l.rawCursor <= rawCursor
    THEN LET t == TokenAt(l, l.rawCursor)
         IN  IF IsEOF(t) \/ t = OutOfRange THEN l
             ELSE FastForwardLoopCountsAll(
                    [l EXCEPT !.rawCursor = @ + 1, !.cursor = @ + 1], rawCursor)
    ELSE l

FastForwardCountsAll(l, rawCursor) ==
    LET m == FastForwardLoopCountsAll(l, rawCursor)
    IN  advanceToNonElided([m EXCEPT !.nextCursor = m.rawCursor])

FastForward(l, rawCursor) ==
    LET m == FastForwardLoop(l, rawCursor)
    IN  advanceToNonElided([m EXCEPT !.nextCursor = m.rawCursor])

MakeCheckpoint(l) == Checkpoint(l.rawCursor, l.nextCursor, l.cursor)

\* LoadCheckpoint that leaves the non-elided cursor as it is
LoadCheckpointKeepsCursor(l, checkpoint) ==
    [l EXCEPT !.rawCursor = checkpoint.rawCursor,
              !.nextCursor = checkpoint.nextCursor]

LoadCheckpoint(l, checkpoint) ==
    [l EXCEPT !.rawCursor = checkpoint.rawCursor,
              !.nextCursor = checkpoint.nextCursor,
              !.cursor = checkpoint.cursor]

----------------------------------------------------------------------------
(* Values, records and errors of the parser.                               *)

\* A reflect.Value: k is its kind; s, n and l hold what the kind needs.
Value(k, s, n, l) == [k |-> k, s |-> s, n |-> n, l |-> l]
StringValue(s) == Value("string", s, 0, <<>>)
StructValue(typ, id) == Value("struct", typ, id, <<>>)
CustomValue == Value("custom", "", 0, <<>>)

\* A []reflect.Value: Go tells a nil slice from an empty one.
NilValues == [isnil |-> TRUE, v |-> <<>>]
Values(v) == [isnil |-> FALSE, v |-> v]

\* append(out, child...): a nil slice stays nil when nothing is appended
AppendValues(out, child) ==
    [isnil |-> out.isnil /\ Len(child.v) = 0, v |-> out.v \o child.v]

\* The record types of the grammar and the kind of each of their fields.
FieldKinds ==
    [Root  |-> [A |-> "string", N |-> "int", Flag |-> "bool", Sub |-> "struct",
                Items |-> "slice"],
     Inner |-> [H |-> "string", Pos |-> "position", EndPos |-> "position",
                Tokens |-> "tokens"]]

ZeroValue(kind) ==
    CASE kind = "string" -> StringValue("")
      [] kind = "struct" -> StructValue("", 0)
      [] OTHER -> Value(kind, "", 0, <<>>)

\* reflect.New(s.typ).Elem()
NewRecord(typ) ==
    [typ |-> typ, f |-> [fld \in DOMAIN FieldKinds[typ] |-> ZeroValue(FieldKinds[typ][fld])]]

HasField(typ, fld) == fld \in DOMAIN FieldKinds[typ]

\* The node used where an error names no node.
NoNode == [kind |-> "none", s |-> "", t |-> "", n |-> 0, kids |-> <<>>]

Error(kind, tok, expect) == [kind |-> kind, tok |-> tok, expect |-> expect]
NoError == Error("nil", OutOfRange, NoNode)

----------------------------------------------------------------------------
(* The field binder. *)

\* The strings strconv.ParseInt accepts, among the token values of the model.
\* v.String() of a string value, as the pieces it was joined from
StringOf(v) == IF v.l # <<>> THEN v.l ELSE <<v.s>>

\* strconv.ParseInt(s, 0, 64) over the digits 0..2 and the sign: a leading 0
\* before further digits makes the number octal (base 0).
DigitOf(d) == CASE d = "0" -> 0 [] d = "1" -> 1 [] d = "2" -> 2 [] OTHER -> -1
Unsigned(s) == IF s # <<>> /\ s[1] = "-" THEN Tail(s) ELSE s
SignOf(s) == IF s # <<>> /\ s[1] = "-" THEN -1 ELSE 1
Base(ds) == IF Len(ds) > 1 /\ ds[1] = "0" THEN 8 ELSE 10
RECURSIVE Number(_, _, _, _)
Number(ds, i, base, acc) ==
    IF i > Len(ds) THEN acc ELSE Number(ds, i + 1, base, acc * base + DigitOf(ds[i]))
NumberOf(ds) == Number(ds, 1, Base(ds), 0)
AllDigits(ds) == ds # <<>> /\ \A i \in 1..Len(ds) : DigitOf(ds[i]) >= 0
IntOf(s) == SignOf(s) * NumberOf(Unsigned(s))
ParsesAsInt(s) == AllDigits(Unsigned(s))

\* strconv.ParseInt on the string of a value that is not an integer
ParseInt(v, s) ==
    IF v.k = "string" /\ ParsesAsInt(s)
    THEN [ok |-> TRUE, v |-> Value("int", "", IntOf(s), <<>>)]
    ELSE [ok |-> FALSE, v |-> v]

\* conform, the body of its loop: the value converted to kind t
conformValue(kind, v) ==
    IF v.k = kind THEN [ok |-> TRUE, v |-> v]
    ELSE CASE kind = "int" -> ParseInt(v, StringOf(v))
           [] kind = "bool" -> [ok |-> TRUE, v |-> Value("bool", "", 1, <<>>)]
           [] OTHER -> [ok |-> TRUE, v |-> v]

\* conform: out with the converted value before those of the rest, or the
\* error of the first conversion that failed
conformAppend(conv, rest) ==
    IF ~conv.ok THEN [out |-> <<>>, err |-> Error("FieldBind", OutOfRange, NoNode)]
    ELSE IF rest.err # NoError THEN rest
    ELSE [out |-> <<conv.v>> \o rest.out, err |-> NoError]

\* conform(t, values): the values converted to kind t, or the parse error
RECURSIVE conform(_, _, _)
conform(kind, values, i) ==
    IF i > Len(values) THEN [out |-> <<>>, err |-> NoError]
    ELSE conformAppend(conformValue(kind, values[i]), conform(kind, values, i + 1))

RECURSIVE JoinStrings(_, _)
JoinStrings(values, i) ==
    IF i > Len(values) THEN <<>> ELSE <<values[i].s>> \o JoinStrings(values, i + 1)

\* setField: the kind conform is called with, and the values it is given
\* (joined into one string for a field that is no slice and no string)
conformKind(kind) == IF kind \in {"slice", "string"} THEN "string" ELSE kind
conformValues(kind, fieldValue) ==
    IF kind \notin {"slice", "string"} /\ Len(fieldValue) > 1
    THEN <<Value("string", "", 0, JoinStrings(fieldValue, 1))>>
    ELSE fieldValue

\* setField from the return of conform on, for a field that is neither token
\* nor tokens: c is what conform returned
setConformed(h, strct, field, kind, f, c) ==
    IF c.err # NoError THEN [heap |-> h, err |-> Error("FieldBind", OutOfRange, NoNode)]
    ELSE IF kind = "slice"
    THEN [heap |-> [h EXCEPT ![strct].f[field] = Value("slice", "", 0, f.l \o c.out)],
          err |-> NoError]
    ELSE IF Len(c.out) = 0 THEN [heap |-> h, err |-> NoError]
    ELSE CASE kind = "string" ->
                [heap |-> [h EXCEPT ![strct].f[field] =
                             Value("string", "", 0, f.l \o JoinStrings(c.out, 1))],
                 err |-> NoError]
           [] kind = "int" ->
                [heap |-> [h EXCEPT ![strct].f[field] =
                             IF c.out[1].k # "int" THEN Value("int", "", f.n + 1, <<>>)
                             ELSE c.out[1]],
                 err |-> NoError]
           [] kind = "bool" /\ c.out[1].k = "bool" ->
                [heap |-> [h EXCEPT ![strct].f[field] = c.out[1]], err |-> NoError]
           [] kind = "struct" /\ c.out[1].k = "struct" ->
                [heap |-> [h EXCEPT ![strct].f[field] = c.out[1]], err |-> NoError]
           [] OTHER -> [heap |-> h, err |-> Error("FieldBind", OutOfRange, NoNode)]

\* setField: the heap after binding fieldValue to the field, and the error.
\* A string is modelled as the sequence of the token values concatenated.
setFieldOfKind(h, tokens, strct, field, fieldValue, kind) ==
    CASE kind = "token" ->
           [heap |-> [h EXCEPT ![strct].f[field] = Value("token", "", 0, <<tokens[1]>>)],
            err |-> NoError]
      [] kind = "tokens" ->
           [heap |-> [h EXCEPT ![strct].f[field] = Value("tokens", "", 0, tokens)],
            err |-> NoError]
      [] OTHER ->
           setConformed(h, strct, field, kind, h[strct].f[field],
                        conform(conformKind(kind), conformValues(kind, fieldValue), 1))

setField(h, tokens, strct, field, fieldValue) ==
    setFieldOfKind(h, tokens, strct, field, fieldValue, FieldKinds[h[strct].typ][field])

----------------------------------------------------------------------------
(* The parse context: the lexer, the deferred assignments of the current    *)
(* branch, the deepest error seen and the configuration.                   *)

NewContext(lexer, lookahead, caseInsensitive) ==
    [lex |-> lexer, apply |-> <<>>, deepestError |-> NoError, deepestErrorDepth |-> 0,
     lookahead |-> lookahead, caseInsensitive |-> caseInsensitive]

Branch(c) == [c EXCEPT !.apply = <<>>]

Accept(c, branch) ==
    [c EXCEPT !.lex = branch.lex,
              !.apply = @ \o branch.apply,
              !.deepestError = IF branch.deepestErrorDepth > c.deepestErrorDepth
                               THEN branch.deepestError ELSE @,
              !.deepestErrorDepth = IF branch.deepestErrorDepth > c.deepestErrorDepth
                                    THEN branch.deepestErrorDepth ELSE @]

Stop(c, err, branch) == branch.lex.cursor > c.lex.cursor + c.lookahead

MaybeUpdateError(c, err) ==
    IF c.lex.cursor > c.deepestErrorDepth
    THEN [c EXCEPT !.deepestError = err, !.deepestErrorDepth = c.lex.cursor]
    ELSE c

Defer(c, tokens, parent, field, values) ==
    [c EXCEPT !.apply = Append(@, [tokens |-> tokens, strct |-> parent,
                                   field |-> field, fieldValue |-> values])]

RECURSIVE ApplyFrom(_, _, _)
ApplyFrom(queue, h, i) ==
    IF i > Len(queue) THEN [heap |-> h, err |-> NoError]
    ELSE LET e == queue[i]
             r == setField(h, e.tokens, e.strct, e.field, e.fieldValue)
         IN  IF r.err # NoError THEN r ELSE ApplyFrom(queue, r.heap, i + 1)

\* Apply: the context with its queue drained, the heap afterwards, the error
Apply(c, h) ==
    LET r == ApplyFrom(c.apply, h, 1)
    IN  [ctx |-> [c EXCEPT !.apply = <<>>], heap |-> r.heap, err |-> r.err]

\* PeekingLexer.Range(rawStart, rawEnd)
Range(l, rawStart, rawEnd) ==
    IF rawStart < rawEnd THEN SubSeq(l.tokens, rawStart + 1, rawEnd) ELSE <<>>

----------------------------------------------------------------------------
(* Grammar nodes.  Every node has the same shape: kind, two string          *)
(* attributes s and t, a number n and its child nodes.                     *)

Node(kind, s, t, n, kids) == [kind |-> kind, s |-> s, t |-> t, n |-> n, kids |-> kids]

\* literal{s, t}: t = EOF means untyped
literal(s, t) == Node("literal", s, t, 0, <<>>)
\* reference{typ}
reference(typ) == Node("reference", "", typ, 0, <<>>)
\* sequence: the chain head, next, next, ... as the list of its nodes
sequence(nodes) == Node("sequence", "", "", 0, nodes)
disjunction(nodes) == Node("disjunction", "", "", 0, nodes)
\* group{expr, mode}
group(expr, mode) == Node("group", mode, "", 0, <<expr>>)
\* lookaheadGroup{expr, negative}
lookaheadGroup(expr, negative) ==
    Node("lookaheadGroup", IF negative THEN "negative" ELSE "positive", "", 0, <<expr>>)
negation(node) == Node("negation", "", "", 0, <<node>>)
\* capture{field, node}
capture(field, node) == Node("capture", field, "", 0, <<node>>)
\* strct{typ, expr}
strct(typ, expr) == Node("strct", typ, "", 0, <<expr>>)
\* custom{parseFn}: the user's function calls Next `consumed` times and then
\* returns "value", "NextMatch" or "error"
custom(consumed, returns) == Node("custom", returns, "", consumed, <<>>)
\* parseable{t}: the user's Parse method, described like a custom function
parseable(consumed, returns) == Node("parseable", returns, "", consumed, <<>>)

groupMatchOnce == "n"
groupMatchZeroOrOne == "n?"
groupMatchZeroOrMore == "n*"
groupMatchOneOrMore == "n+"
groupMatchNonEmpty == "n!"

\* What a Parse call returns: the values, the error, the context and the heap
\* as the call left them, and whether the call panicked.
Result(out, err, c, h) == [out |-> out, err |-> err, ctx |-> c, heap |-> h, panic |-> FALSE]
Panic(c, h) ==
    [out |-> NilValues, err |-> Error("panic", RawPeek(c.lex), NoNode), ctx |-> c,
     heap |-> h, panic |-> TRUE]

Matched(r) == ~r.panic /\ r.err = NoError /\ ~r.out.isnil
NoMatch(r) == ~r.panic /\ r.err = NoError /\ r.out.isnil
Failed(r) == ~r.panic /\ r.err # NoError

RECURSIVE Parse(_, _, _, _)

\* The user's production run on the context's lexer: it calls Next n times.
RECURSIVE NextTimes(_, _)
NextTimes(l, n) == IF n = 0 THEN l ELSE NextTimes(PeekingLexerNext(l).l, n - 1)

parseableParse(nd, c, h, parent) ==
    LET c2 == [c EXCEPT !.lex = NextTimes(c.lex, nd.n)]
    IN  IF nd.s = "NextMatch" THEN Result(NilValues, NoError, c2, h)
        ELSE IF nd.s = "error" THEN Result(NilValues, Error("custom", OutOfRange, NoNode), c2, h)
        ELSE Result(Values(<<CustomValue>>), NoError, c2, h)

customParse(nd, c, h, parent) ==
    LET c2 == [c EXCEPT !.lex = NextTimes(c.lex, nd.n)]
    IN  IF nd.s = "NextMatch" THEN Result(NilValues, NoError, c2, h)
        ELSE IF nd.s = "error" THEN Result(NilValues, Error("custom", OutOfRange, NoNode), c2, h)
        ELSE Result(Values(<<CustomValue>>), NoError, c2, h)

\* strings.EqualFold on the token values of the model
Fold(s) == CASE s = "A" -> "a" [] s = "B" -> "b" [] OTHER -> s
EqualFold(x, y) == Fold(x) = Fold(y)

\* the match closure of literal.Parse
literalMatch(l, c, t) ==
    LET equal == IF t.Type \in c.caseInsensitive
                 THEN l.s = "" \/ EqualFold(t.Value, l.s)
                 ELSE l.s = "" \/ t.Value = l.s
    IN  (l.t = EOF \/ l.t = t.Type) /\ equal

\* literal.Parse that forgets to FastForward after a match
literalParseNoAdvance(l, c, h, parent) ==
    LET match == { a \in Alphabet : literalMatch(l, c, Token(a[1], a[2], 0)) }
        pk == PeekAny(c.lex, match)
    IN  IF pk.t # OutOfRange /\ literalMatch(l, c, pk.t)
        THEN Result(Values(<<StringValue(pk.t.Value)>>), NoError, c, h)
        ELSE Result(NilValues, NoError, c, h)

literalParse(l, c, h, parent) ==
    LET match == { a \in Alphabet : literalMatch(l, c, Token(a[1], a[2], 0)) }
        pk == PeekAny(c.lex, match)
    IN  IF pk.t # OutOfRange /\ literalMatch(l, c, pk.t)
        THEN Result(Values(<<StringValue(pk.t.Value)>>), NoError,
                    [c EXCEPT !.lex = FastForward(c.lex, pk.rawCursor)], h)
        ELSE Result(NilValues, NoError, c, h)

referenceParse(r, c, h, parent) ==
    LET match == { a \in Alphabet : a[1] = r.t }
        pk == PeekAny(c.lex, match)
    IN  IF pk.t.Type # r.t THEN Result(NilValues, NoError, c, h)
        ELSE Result(Values(<<StringValue(pk.t.Value)>>), NoError,
                    [c EXCEPT !.lex = FastForward(c.lex, pk.rawCursor)], h)

\* negation.Parse that returns the next token's value without consuming it
negationParseNoNext(n, c, h, parent) ==
    LET branch == Branch(c)
        notEOF == Peek(c.lex)
    IN  IF IsEOF(notEOF) THEN Result(NilValues, NoError, c, h)
        ELSE LET r == Parse(n.kids[1], branch, h, parent)
             IN  IF r.panic THEN r
                 ELSE IF ~r.out.isnil /\ r.err = NoError
                 THEN Result(NilValues, Error("UnexpectedToken", notEOF, NoNode), c, r.heap)
                 ELSE Result(Values(<<StringValue(notEOF.Value)>>), NoError, c, r.heap)

negationParse(n, c, h, parent) ==
    LET branch == Branch(c)
        notEOF == Peek(c.lex)
    IN  IF IsEOF(notEOF) THEN Result(NilValues, NoError, c, h)
        ELSE LET r == Parse(n.kids[1], branch, h, parent)
             IN  IF r.panic THEN r
                 ELSE IF ~r.out.isnil /\ r.err = NoError
                 THEN Result(NilValues, Error("UnexpectedToken", notEOF, NoNode), c, r.heap)
                 ELSE LET nx == PeekingLexerNext(c.lex)
                      IN  Result(Values(<<StringValue(nx.t.Value)>>), NoError,
                                 [c EXCEPT !.lex = nx.l], r.heap)

\* lookaheadGroup.Parse that parses its inner node on the context itself
lookaheadGroupParseNoBranch(l, c, h, parent) ==
    LET r == Parse(l.kids[1], c, h, parent)
        matchedLookahead == r.err = NoError /\ ~r.out.isnil
        expectingMatch == l.s # "negative"
    IN  IF r.panic THEN r
        ELSE IF matchedLookahead # expectingMatch
        THEN Result(NilValues, Error("UnexpectedToken", Peek(r.ctx.lex), NoNode), r.ctx, r.heap)
        ELSE Result(Values(<<>>), NoError, r.ctx, r.heap)

\* lookaheadGroup.Parse that accepts its branch
lookaheadGroupParseAccepts(l, c, h, parent) ==
    LET branch == Branch(c)
        r == Parse(l.kids[1], branch, h, parent)
        matchedLookahead == r.err = NoError /\ ~r.out.isnil
        expectingMatch == l.s # "negative"
        c1 == Accept(c, r.ctx)
    IN  IF r.panic THEN r
        ELSE IF matchedLookahead # expectingMatch
        THEN Result(NilValues, Error("UnexpectedToken", Peek(c1.lex), NoNode), c1, r.heap)
        ELSE Result(Values(<<>>), NoError, c1, r.heap)

lookaheadGroupParse(l, c, h, parent) ==
    LET branch == Branch(c)
        r == Parse(l.kids[1], branch, h, parent)
        matchedLookahead == r.err = NoError /\ ~r.out.isnil
        expectingMatch == l.s # "negative"
    IN  IF r.panic THEN r
        ELSE IF matchedLookahead # expectingMatch
        THEN Result(NilValues, Error("UnexpectedToken", Peek(c.lex), NoNode), c, r.heap)
        ELSE Result(Values(<<>>), NoError, c, r.heap)

captureParse(cp, c, h, parent) ==
    LET start == c.lex.rawCursor
        r == Parse(cp.kids[1], c, h, parent)
        c2 == IF ~r.out.isnil
              THEN Defer(r.ctx, Range(r.ctx.lex, start, r.ctx.lex.rawCursor), parent,
                         cp.s, r.out.v)
              ELSE r.ctx
        me == Values(<<StructValue(h[parent].typ, parent)>>)
    IN  IF r.panic THEN r
        ELSE IF r.err # NoError THEN Result(me, r.err, c2, r.heap)
        ELSE IF r.out.isnil THEN Result(NilValues, NoError, c2, r.heap)
        ELSE Result(me, NoError, c2, r.heap)

\* maybeInjectStartToken, maybeInjectEndToken: Position is the token's index
maybeInjectStartToken(typ, token, v) ==
    IF ~HasField(typ, "Pos") THEN v ELSE [v EXCEPT !.f.Pos = Value("position", "", token.Pos, <<>>)]

maybeInjectEndToken(typ, token, v) ==
    IF ~HasField(typ, "EndPos") THEN v
    ELSE [v EXCEPT !.f.EndPos = Value("position", "", token.Pos, <<>>)]

maybeInjectTokens(typ, tokens, v) ==
    IF ~HasField(typ, "Tokens") THEN v ELSE [v EXCEPT !.f.Tokens = Value("tokens", "", 0, tokens)]

\* strct.Parse that takes the end token from Peek() instead of RawPeek()
strctParseEndAtPeek(s, c, h, parent) ==
    LET typ == s.s
        sv == Len(h) + 1
        start == c.lex.rawCursor
        h1 == Append(h, maybeInjectStartToken(typ, Peek(c.lex), NewRecord(typ)))
        r == Parse(s.kids[1], c, h1, sv)
        me == Values(<<StructValue(typ, sv)>>)
    IN  IF r.panic THEN r
        ELSE IF r.err # NoError
        THEN LET a == Apply(r.ctx, r.heap)
             IN  Result(me, r.err, MaybeUpdateError(a.ctx, r.err), a.heap)
        ELSE IF r.out.isnil THEN Result(NilValues, NoError, r.ctx, r.heap)
        ELSE LET end == r.ctx.lex.rawCursor
                 h2 == [r.heap EXCEPT ![sv] =
                          maybeInjectTokens(typ, Range(r.ctx.lex, start, end),
                              maybeInjectEndToken(typ, Peek(r.ctx.lex), @))]
                 a == Apply(r.ctx, h2)
             IN  Result(me, a.err, a.ctx, a.heap)

strctParse(s, c, h, parent) ==
    LET typ == s.s
        sv == Len(h) + 1
        start == c.lex.rawCursor
        h1 == Append(h, maybeInjectStartToken(typ, Peek(c.lex), NewRecord(typ)))
        r == Parse(s.kids[1], c, h1, sv)
        me == Values(<<StructValue(typ, sv)>>)
    IN  IF r.panic THEN r
        ELSE IF r.err # NoError
        THEN LET a == Apply(r.ctx, r.heap)
             IN  Result(me, r.err, MaybeUpdateError(a.ctx, r.err), a.heap)
        ELSE IF r.out.isnil THEN Result(NilValues, NoError, r.ctx, r.heap)
        ELSE LET end == r.ctx.lex.rawCursor
                 h2 == [r.heap EXCEPT ![sv] =
                          maybeInjectTokens(typ, Range(r.ctx.lex, start, end),
                              maybeInjectEndToken(typ, RawPeek(r.ctx.lex), @))]
                 a == Apply(r.ctx, h2)
             IN  Result(me, a.err, a.ctx, a.heap)

\* sequence.Parse without the conversion of a nil value list into an empty
\* one after a child matched
RECURSIVE sequenceLoopKeepsNil(_, _, _, _, _, _)
sequenceLoopKeepsNil(s, i, out, c, h, parent) ==
    IF i > Len(s.kids) THEN Result(out, NoError, c, h)
    ELSE LET r == Parse(s.kids[i], c, h, parent)
             out2 == AppendValues(out, r.out)
         IN  IF r.panic THEN r
             ELSE IF r.err # NoError THEN Result(out2, r.err, r.ctx, r.heap)
             ELSE IF r.out.isnil
             THEN IF i = 1 THEN Result(NilValues, NoError, r.ctx, r.heap)
                  ELSE Result(out2,
                              Error("UnexpectedToken", Peek(r.ctx.lex),
                                    sequence(SubSeq(s.kids, i, Len(s.kids)))),
                              r.ctx, r.heap)
             ELSE sequenceLoopKeepsNil(s, i + 1, out2, r.ctx, r.heap, parent)

\* sequence.Parse: the loop over the chain from its i-th node on
RECURSIVE sequenceLoop(_, _, _, _, _, _)
sequenceLoop(s, i, out, c, h, parent) ==
    IF i > Len(s.kids) THEN Result(out, NoError, c, h)
    ELSE LET r == Parse(s.kids[i], c, h, parent)
             out2 == AppendValues(out, r.out)
         IN  IF r.panic THEN r
             ELSE IF r.err # NoError THEN Result(out2, r.err, r.ctx, r.heap)
             ELSE IF r.out.isnil
             THEN IF i = 1 THEN Result(NilValues, NoError, r.ctx, r.heap)
                  ELSE Result(out2,
                              Error("UnexpectedToken", Peek(r.ctx.lex),
                                    sequence(SubSeq(s.kids, i, Len(s.kids)))),
                              r.ctx, r.heap)
             ELSE sequenceLoop(s, i + 1, [out2 EXCEPT !.isnil = FALSE], r.ctx, r.heap, parent)

sequenceParse(s, c, h, parent) == sequenceLoop(s, 1, NilValues, c, h, parent)

\* The iteration limit (the package variable MaxIterations, 1000000 unless
\* the user sets it), kept small here.
MaxIterations == 3

groupMin(mode) == IF mode \in {groupMatchZeroOrOne, groupMatchZeroOrMore} THEN 0 ELSE 1
groupMax(mode) == IF mode = groupMatchZeroOrOne THEN 1 ELSE MaxIterations

\* The state of the loop of group.Parse: status is "loop" while the loop
\* runs, "break" once it is left, "return" when the loop body has returned
\* (out and err are then the call's result), "panic" when the inner node
\* has panicked.
GroupState(matches, out, err, c, h, status) ==
    [matches |-> matches, out |-> out, err |-> err, ctx |-> c, heap |-> h, status |-> status]

GroupStart(c, h) == GroupState(0, NilValues, NoError, c, h, "loop")

\* The loop body of group.Parse, after the inner Parse, without
\* ctx.Accept(branch)
groupPassNoAccept(gr, st, r) ==
    IF r.panic THEN GroupState(st.matches, st.out, r.err, r.ctx, r.heap, "panic")
    ELSE IF r.err # NoError
    THEN LET c1 == MaybeUpdateError(st.ctx, r.err)
         IN  IF Stop(c1, r.err, r.ctx)
             THEN GroupState(st.matches, AppendValues(st.out, r.out), r.err, c1, r.heap,
                             "return")
             ELSE GroupState(st.matches, st.out, NoError, c1, r.heap, "break")
    ELSE LET out2 == AppendValues(st.out, r.out)
         IN  IF r.out.isnil
             THEN GroupState(st.matches, out2, NoError, st.ctx, r.heap, "break")
             ELSE GroupState(st.matches + 1, out2, NoError, st.ctx, r.heap, "loop")

\* The loop body of group.Parse from the return of the inner Parse (r, made
\* on a branch of st.ctx) on
groupPass(gr, st, r) ==
    IF r.panic THEN GroupState(st.matches, st.out, r.err, r.ctx, r.heap, "panic")
    ELSE IF r.err # NoError
    THEN LET c1 == MaybeUpdateError(st.ctx, r.err)
         IN  IF Stop(c1, r.err, r.ctx)
             THEN GroupState(st.matches, AppendValues(st.out, r.out), r.err, c1, r.heap,
                             "return")
             ELSE GroupState(st.matches, st.out, NoError, c1, r.heap, "break")
    ELSE LET out2 == AppendValues(st.out, r.out)
             c1 == Accept(st.ctx, r.ctx)
         IN  IF r.out.isnil
             THEN GroupState(st.matches, out2, NoError, c1, r.heap, "break")
             ELSE GroupState(st.matches + 1, out2, NoError, c1, r.heap, "loop")

\* One pass through the body of the loop of group.Parse
groupIteration(gr, st, parent) ==
    groupPass(gr, st, Parse(gr.kids[1], Branch(st.ctx), st.heap, parent))

\* the loop condition: matches < max
groupContinues(gr, st) == st.status = "loop" /\ st.matches < groupMax(gr.s)

RECURSIVE groupLoop(_, _, _)
groupLoop(gr, st, parent) ==
    IF groupContinues(gr, st) THEN groupLoop(gr, groupIteration(gr, st, parent), parent)
    ELSE st

\* group.Parse without the check of the iteration limit
groupLimitNever(matches) == FALSE

\* the check after the loop: matches >= MaxIterations
groupLimitReached(matches) == matches >= MaxIterations

\* group.Parse from the end of its loop on, without the conversion of a nil
\* value list into an empty one
groupFinishKeepsNil(gr, st) ==
    LET t == Peek(st.ctx.lex)
        min == groupMin(gr.s)
    IN  IF st.status = "panic" THEN Panic(st.ctx, st.heap)
        ELSE IF st.status = "return" THEN Result(st.out, st.err, st.ctx, st.heap)
        ELSE IF groupLimitReached(st.matches)
        THEN Result(NilValues, Error("too many iterations", t, gr), st.ctx, st.heap)
        ELSE IF st.matches < min
        THEN Result(st.out, Error("must match at least once", t, gr), st.ctx, st.heap)
        ELSE Result(st.out, NoError, st.ctx, st.heap)

\* group.Parse from the end of its loop on
groupFinish(gr, st) ==
    LET t == Peek(st.ctx.lex)
        min == groupMin(gr.s)
    IN  IF st.status = "panic" THEN Panic(st.ctx, st.heap)
        ELSE IF st.status = "return" THEN Result(st.out, st.err, st.ctx, st.heap)
        ELSE IF groupLimitReached(st.matches)
        THEN Result(NilValues, Error("too many iterations", t, gr), st.ctx, st.heap)
        ELSE IF st.matches < min
        THEN Result(st.out, Error("must match at least once", t, gr), st.ctx, st.heap)
        ELSE IF min = 0 /\ st.out.isnil THEN Result(Values(<<>>), NoError, st.ctx, st.heap)
        ELSE Result(st.out, NoError, st.ctx, st.heap)

groupParse(gr, c, h, parent) ==
    IF gr.s = groupMatchNonEmpty
    THEN LET r == Parse(gr.kids[1], c, h, parent)
         IN  IF r.panic \/ r.err # NoError THEN r
             ELSE IF Len(r.out.v) = 0
             THEN Result(r.out, Error("cannot be empty", Peek(r.ctx.lex), gr), r.ctx, r.heap)
             ELSE r
    ELSE IF gr.s = groupMatchOnce THEN Parse(gr.kids[1], c, h, parent)
    ELSE groupFinish(gr, groupLoop(gr, GroupStart(c, h), parent))

\* disjunction.Parse that keeps the recorded error unless the new one is deeper
disjunctionRecordsStrict(branchCursor, deepestError) == branchCursor > deepestError

\* disjunction.Parse: whether a failed branch replaces the recorded error
disjunctionRecords(branchCursor, deepestError) == branchCursor >= deepestError

\* disjunction.Parse that accepts a matched alternative without looking at
\* the raw cursors
disjunctionMatchedNoPanic(c, r) == Result(r.out, NoError, Accept(c, r.ctx), r.heap)

\* disjunction.Parse that returns the values of a match without ctx.Accept
disjunctionMatchedNoAccept(c, r) ==
    IF r.ctx.lex.rawCursor = c.lex.rawCursor /\ RawPeek(r.ctx.lex).Type # EOF
    THEN Panic(c, r.heap)
    ELSE Result(r.out, NoError, c, r.heap)

\* disjunction.Parse: a matched alternative is accepted, unless it did not
\* move the raw cursor at a token other than EOF
disjunctionMatched(c, r) ==
    IF r.ctx.lex.rawCursor = c.lex.rawCursor /\ RawPeek(r.ctx.lex).Type # EOF
    THEN Panic(c, r.heap)
    ELSE Result(r.out, NoError, Accept(c, r.ctx), r.heap)

\* disjunction.Parse that never takes an error for fatal
disjunctionNeverStops(c, r) == FALSE

\* disjunction.Parse: whether the error of a failed alternative is returned
\* at once
disjunctionStops(c, r) == Stop(c, r.err, r.ctx)

\* disjunction.Parse: the loop over the alternatives from the i-th on
RECURSIVE disjunctionLoop(_, _, _, _, _, _, _, _)
disjunctionLoop(d, i, deepestError, firstError, firstValues, c, h, parent) ==
    IF i > Len(d.kids)
    THEN IF firstError # NoError
         THEN Result(firstValues, firstError, MaybeUpdateError(c, firstError), h)
         ELSE Result(NilValues, NoError, c, h)
    ELSE LET branch == Branch(c)
             r == Parse(d.kids[i], branch, h, parent)
         IN  IF r.panic THEN r
             ELSE IF r.err # NoError
             THEN IF disjunctionStops(c, r) THEN Result(r.out, r.err, c, r.heap)
                  ELSE IF disjunctionRecords(r.ctx.lex.cursor, deepestError)
                  THEN disjunctionLoop(d, i + 1, r.ctx.lex.cursor, r.err, r.out, c, r.heap,
                                       parent)
                  ELSE disjunctionLoop(d, i + 1, deepestError, firstError, firstValues, c,
                                       r.heap, parent)
             ELSE IF ~r.out.isnil THEN disjunctionMatched(c, r)
             ELSE disjunctionLoop(d, i + 1, deepestError, firstError, firstValues, c, r.heap,
                                  parent)

disjunctionParse(d, c, h, parent) ==
    disjunctionLoop(d, 1, 0, NoError, NilValues, c, h, parent)

\* A reflect.Type of a union member: a struct type or the pointer to it.
Type(name, ptr) == [name |-> name, ptr |-> ptr]

\* The union node: the sum type, its member types in the order of the
\* alternatives, the types whose method set implements the sum type, and the
\* disjunction over the alternatives.
union(typ, members, implements, d) ==
    [kind |-> "union", typ |-> typ, members |-> members, implements |-> implements,
     disjunction |-> d]

\* Value.Type(), Value.CanAddr() and Value.Addr(): a record made by
\* reflect.New(typ).Elem() is addressable, its address is not.
TypeOf(v) == Type(v.s, v.k = "ptr")
CanAddr(v) == v.k = "struct"
Addr(v) == Value("ptr", v.s, v.n, v.l)

\* maybeRef: the value, or its address when the template is a pointer type.
\* reflect.New(tmpl) is not settable, so ptr.Set panics.
maybeRef(tmpl, sv) ==
    IF TypeOf(sv) = tmpl THEN [v |-> sv, panic |-> FALSE]
    ELSE IF tmpl.ptr
    THEN IF CanAddr(sv) THEN [v |-> Addr(sv), panic |-> FALSE]
         ELSE [v |-> sv, panic |-> TRUE]
    ELSE [v |-> sv, panic |-> FALSE]

\* Value.Convert(u.typ): the value held in the interface type of the union;
\* it panics when the value's type does not implement it.
Convert(v, u) ==
    IF TypeOf(v) \in u.implements
    THEN [v |-> Value(v.k, v.s, v.n, <<u.typ>>), panic |-> FALSE]
    ELSE [v |-> v, panic |-> TRUE]

\* The loop of union.Parse over the values from the i-th on: vals[i] is
\* converted with u.members[i].
RECURSIVE unionConvert(_, _, _)
unionConvert(u, vals, i) ==
    IF i > Len(vals) THEN [v |-> <<>>, panic |-> FALSE]
    ELSE IF i > Len(u.members) THEN [v |-> <<>>, panic |-> TRUE]
    ELSE LET ref == maybeRef(u.members[i], vals[i])
             conv == Convert(ref.v, u)
             rest == unionConvert(u, vals, i + 1)
         IN  IF ref.panic \/ conv.panic \/ rest.panic THEN [v |-> <<>>, panic |-> TRUE]
             ELSE [v |-> <<conv.v>> \o rest.v, panic |-> FALSE]

\* node.Parse, by the node's kind
Parse(nd, c, h, parent) ==
    CASE nd.kind = "literal" -> literalParse(nd, c, h, parent)
      [] nd.kind = "reference" -> referenceParse(nd, c, h, parent)
      [] nd.kind = "sequence" -> sequenceParse(nd, c, h, parent)
      [] nd.kind = "disjunction" -> disjunctionParse(nd, c, h, parent)
      [] nd.kind = "group" -> groupParse(nd, c, h, parent)
      [] nd.kind = "lookaheadGroup" -> lookaheadGroupParse(nd, c, h, parent)
      [] nd.kind = "negation" -> negationParse(nd, c, h, parent)
      [] nd.kind = "capture" -> captureParse(nd, c, h, parent)
      [] nd.kind = "strct" -> strctParse(nd, c, h, parent)
      [] nd.kind = "custom" -> customParse(nd, c, h, parent)
      [] nd.kind = "parseable" -> parseableParse(nd, c, h, parent)

\* union.Parse, from the return of u.disjunction.Parse on
unionReturn(u, r) ==
    IF r.panic THEN r
    ELSE IF r.err # NoError THEN Result(NilValues, r.err, r.ctx, r.heap)
    ELSE LET vals == unionConvert(u, r.out.v, 1)
         IN  IF vals.panic THEN Panic(r.ctx, r.heap)
             ELSE Result([isnil |-> r.out.isnil, v |-> vals.v], NoError, r.ctx, r.heap)

\* union.Parse; the union is the node at the root of the grammar
unionParse(u, c, h, parent) == unionReturn(u, Parse(u.disjunction, c, h, parent))

----------------------------------------------------------------------------
(* SpecLex: a client driving one PeekingLexer. *)

NoRet == [op |-> "Upgrade", t |-> OutOfRange, rawCursor |-> 0]

\* The predicates a client hands to PeekAny.
Predicates == SUBSET Alphabet

InitLex ==
    /\ \E lex \in Producers, elide \in ElideSets : p = Upgrade(lex, elide)
    /\ prev = p
    /\ ret = NoRet
    /\ saved = {} /\ peekingLexerPool = {}
    /\ g = NoNode /\ ctx = <<>> /\ heap = <<>> /\ pre = <<>> /\ res = <<>> /\ loop = <<>>
    /\ iters = 0 /\ pc = "lexer"

DoPeek ==
    /\ prev' = p /\ p' = p
    /\ ret' = [op |-> "Peek", t |-> Peek(p), rawCursor |-> p.nextCursor]
    /\ UNCHANGED <<saved, parseVars, peekingLexerPool>>

DoRawPeek ==
    /\ prev' = p /\ p' = p
    /\ ret' = [op |-> "RawPeek", t |-> RawPeek(p), rawCursor |-> p.rawCursor]
    /\ UNCHANGED <<saved, parseVars, peekingLexerPool>>

DoNext ==
    /\ prev' = p
    /\ p' = PeekingLexerNext(p).l
    /\ ret' = [op |-> "Next", t |-> PeekingLexerNext(p).t, rawCursor |-> p.nextCursor]
    /\ UNCHANGED <<saved, parseVars, peekingLexerPool>>

DoPeekAny ==
    \E match \in Predicates :
        /\ prev' = p /\ p' = p
        /\ ret' = [op |-> "PeekAny", t |-> PeekAny(p, match).t,
                   rawCursor |-> PeekAny(p, match).rawCursor]
        /\ UNCHANGED <<saved, parseVars, peekingLexerPool>>

DoFastForward ==
    \E rawCursor \in 0..(MaxLen + 1) :
        /\ prev' = p
        /\ p' = FastForward(p, rawCursor)
        /\ ret' = [op |-> "FastForward", t |-> OutOfRange, rawCursor |-> rawCursor]
        /\ UNCHANGED <<saved, parseVars, peekingLexerPool>>

DoMakeCheckpoint ==
    /\ Cardinality(saved \cup {MakeCheckpoint(p)}) <= MaxSaved
    /\ saved' = saved \cup {MakeCheckpoint(p)}
    /\ prev' = p /\ p' = p
    /\ ret' = [op |-> "MakeCheckpoint", t |-> OutOfRange, rawCursor |-> p.rawCursor]
    /\ UNCHANGED <<parseVars, peekingLexerPool>>

DoLoadCheckpoint ==
    \E c \in saved :
        /\ prev' = p
        /\ p' = LoadCheckpoint(p, c)
        /\ ret' = [op |-> "LoadCheckpoint", t |-> OutOfRange, rawCursor |-> c.rawCursor]
        /\ UNCHANGED <<saved, parseVars, peekingLexerPool>>

NextLex ==
    \/ DoPeek
    \/ DoRawPeek
    \/ DoNext
    \/ DoPeekAny
    \/ DoFastForward
    \/ DoMakeCheckpoint
    \/ DoLoadCheckpoint

SpecLex == InitLex /\ [][NextLex]_vars

----------------------------------------------------------------------------
(* The grammars that are parsed. *)

la == literal("a", EOF)
lb == literal("b", EOF)
lsp == literal(" ", EOF)
laT == literal("a", Ident)
rI == reference(Ident)
rW == reference(WS)

Literals == {la, lb, lsp, laT, rI, rW}

Customs ==
    { custom(n, r) : n \in {0, 1}, r \in {"value", "NextMatch"} }
    \cup { custom(1, "error"), parseable(1, "value"), parseable(1, "NextMatch") }

Leaves == Literals \cup Customs

Modes == {groupMatchOnce, groupMatchZeroOrOne, groupMatchZeroOrMore, groupMatchOneOrMore,
          groupMatchNonEmpty}
RepeatModes == {groupMatchZeroOrOne, groupMatchZeroOrMore, groupMatchOneOrMore}

\* Every node that wraps x, parsed with the Root record as its parent.
Wrap(x) ==
    { group(x, m) : m \in Modes }
    \cup { lookaheadGroup(x, neg) : neg \in BOOLEAN }
    \cup { negation(x), capture("A", x), strct("Inner", capture("H", x)) }

\* Root = @A:"a" @Sub:Inner "a" with Inner = @H:"b": a capture into the
\* Root record, then a nested struct, then a literal.
CaptureThenStruct ==
    sequence(<<capture("A", la), capture("Sub", strct("Inner", capture("H", lb))), la>>)

SequenceParts ==
    {la, lb, rW, group(la, groupMatchZeroOrOne), group(lsp, groupMatchZeroOrMore),
     lookaheadGroup(la, FALSE), custom(1, "NextMatch"), custom(0, "value")}

Alternatives ==
    {la, lb, sequence(<<la, lb>>), sequence(<<la, la>>), sequence(<<la, lb, la>>),
     group(la, groupMatchZeroOrOne), custom(1, "error"), CaptureThenStruct,
     capture("A", sequence(<<lb, la>>))}

Inners ==
    {sequence(<<la, lb>>), disjunction(<<la, lb>>), group(la, groupMatchZeroOrOne),
     lookaheadGroup(la, FALSE), lookaheadGroup(la, TRUE), CaptureThenStruct,
     sequence(<<la, lb, la>>)}

Grammars ==
    Leaves
    \cup UNION { Wrap(x) : x \in Leaves }
    \cup { sequence(<<x, y>>) : x, y \in SequenceParts }
    \cup { disjunction(<<x, y>>) : x, y \in Alternatives }
    \cup { disjunction(<<sequence(<<la, lb>>), sequence(<<la, la>>), x>>) : x \in Alternatives }
    \cup { group(x, m) : x \in Inners, m \in Modes }
    \cup { lookaheadGroup(x, neg) : x \in Inners, neg \in BOOLEAN }
    \cup { negation(x) : x \in Inners }
    \cup { strct("Inner", x) : x \in {capture("H", group(la, groupMatchZeroOrMore)),
                                       sequence(<<capture("H", la), lb>>),
                                       sequence(<<capture("H", la), capture("H", lb)>>)} }

\* The lookahead depths a grammar is built with.
Lookaheads == {1, MaxLen}

\* The case-insensitive token types a grammar is built with.
CaseInsensitive == { {} }

\* The elide lists of the parsers.
ParserElideSets == { {}, {WS} }

\* The record every top-level Parse call is given as its parent.
RootRecord == 1

----------------------------------------------------------------------------
(* Spec: one Parse call of a grammar node on a context. *)

Init ==
    /\ g \in Grammars
    /\ \E lex \in Producers, elide \in ParserElideSets, lookahead \in Lookaheads,
          ci \in CaseInsensitive :
          ctx = NewContext(Upgrade(lex, elide), lookahead, ci)
    /\ heap = <<NewRecord("Root")>>
    /\ pre = [ctx |-> ctx, heap |-> heap]
    /\ res = Result(NilValues, NoError, ctx, heap)
    /\ pc = "ready"
    /\ loop = <<>> /\ iters = 0
    /\ p = <<>> /\ prev = <<>> /\ ret = <<>> /\ saved = {} /\ peekingLexerPool = {}

\* The tokens before the node under test are consumed by what precedes it.
Skip ==
    /\ pc = "ready"
    /\ ~IsEOF(Peek(ctx.lex))
    /\ ctx' = [ctx EXCEPT !.lex = PeekingLexerNext(ctx.lex).l]
    /\ pre' = [ctx |-> ctx', heap |-> heap]
    /\ res' = Result(NilValues, NoError, ctx', heap)
    /\ UNCHANGED <<g, heap, pc, loop, iters, lexVars>>

DoParse ==
    /\ pc = "ready"
    /\ LET r == Parse(g, ctx, heap, RootRecord)
       IN  /\ res' = r
           /\ ctx' = r.ctx
           /\ heap' = r.heap
    /\ pre' = [ctx |-> ctx, heap |-> heap]
    /\ pc' = "done"
    /\ UNCHANGED <<g, loop, iters, lexVars>>

Next == Skip \/ DoParse

Spec == Init /\ [][Next]_vars

----------------------------------------------------------------------------
(* SpecGroup: group.Parse in a repeating mode, one pass of its loop at a    *)
(* time.                                                                   *)

GroupInners ==
    Literals
    \cup {custom(0, "value"), custom(1, "value"), custom(1, "NextMatch"), custom(1, "error")}
    \cup Inners

InitGroup ==
    /\ g \in { group(x, m) : x \in GroupInners, m \in RepeatModes }
    /\ \E lex \in Producers, elide \in ParserElideSets, lookahead \in Lookaheads,
          ci \in CaseInsensitive :
          ctx = NewContext(Upgrade(lex, elide), lookahead, ci)
    /\ heap = <<NewRecord("Root")>>
    /\ pre = [ctx |-> ctx, heap |-> heap]
    /\ res = Result(NilValues, NoError, ctx, heap)
    /\ loop = GroupStart(ctx, heap)
    /\ iters = 0
    /\ pc = "loop"
    /\ p = <<>> /\ prev = <<>> /\ ret = <<>> /\ saved = {} /\ peekingLexerPool = {}

GroupIterate ==
    /\ pc = "loop"
    /\ groupContinues(g, loop)
    /\ loop' = groupPass(g, loop, Parse(g.kids[1], Branch(loop.ctx), loop.heap, RootRecord))
    /\ iters' = iters + 1
    /\ UNCHANGED <<g, ctx, heap, pre, res, pc, lexVars>>

GroupFinish ==
    /\ pc = "loop"
    /\ ~groupContinues(g, loop)
    /\ LET r == groupFinish(g, loop)
       IN  /\ res' = r
           /\ ctx' = r.ctx
           /\ heap' = r.heap
    /\ pc' = "done"
    /\ UNCHANGED <<g, pre, loop, iters, lexVars>>

NextGroup == GroupIterate \/ GroupFinish

SpecGroup == InitGroup /\ [][NextGroup]_vars

----------------------------------------------------------------------------
(* What the properties below speak of. *)

\* the cursor triple of a lexer
Triple(l) == <<l.rawCursor, l.nextCursor, l.cursor>>

Done == pc = "done"

IsRepeatingGroup(nd) == nd.kind = "group" /\ nd.s \in RepeatModes

\* The heap on which the i-th alternative of disjunction d is parsed, when
\* the alternatives before it have been tried on branches of context c.
RECURSIVE AltHeap(_, _, _, _)
AltHeap(d, i, c, h) ==
    IF i = 1 THEN h
    ELSE Parse(d.kids[i - 1], Branch(c), AltHeap(d, i - 1, c, h), RootRecord).heap

\* What the i-th alternative of d returns, parsed in a fresh branch of c.
AltResult(d, i, c, h) == Parse(d.kids[i], Branch(c), AltHeap(d, i, c, h), RootRecord)

AltFatal(d, i, c, h) ==
    LET r == AltResult(d, i, c, h) IN Failed(r) /\ Stop(c, r.err, r.ctx)

\* The alternatives up to the i-th neither matched nor failed fatally nor
\* panicked: the loop of disjunction.Parse reaches alternative i + 1.
AltsPassed(d, i, c, h) ==
    \A j \in 1..i :
        LET r == AltResult(d, j, c, h)
        IN  ~r.panic /\ ~Matched(r) /\ ~AltFatal(d, j, c, h)

\* What the first pass of the loop of a repeating group gets from its inner
\* node, parsed in a fresh branch.
FirstIteration == Parse(g.kids[1], Branch(pre.ctx), pre.heap, RootRecord)

----------------------------------------------------------------------------
\* C1: when an alternative of a disjunction, or an iteration of a repeating
\* group, fails and its branch is not accepted, no record that existed before
\* the call is changed.
C1_FailedBranchKeepsRecords ==
    (/\ Done
     /\ ~res.panic
     /\ \/ g.kind = "disjunction" /\ ~Matched(res)
        \/ IsRepeatingGroup(g) /\ Failed(FirstIteration))
    => \A id \in 1..Len(pre.heap) : heap[id] = pre.heap[id]

Alt(i) == AltResult(g, i, pre.ctx, pre.heap)
AltTried(i) == AltsPassed(g, i - 1, pre.ctx, pre.heap)
AltIndexes == 1..Len(g.kids)

\* A matched alternative moved the raw cursor, or stands at EOF.
AltProgressed(i) ==
    \/ Alt(i).ctx.lex.rawCursor # pre.ctx.lex.rawCursor
    \/ RawPeek(Alt(i).ctx.lex).Type = EOF

\* disjunction.Parse returned what alternative i returned and parsed no
\* alternative after it.
ReturnedAlt(i) ==
    /\ res.out = Alt(i).out
    /\ res.err = Alt(i).err
    /\ heap = Alt(i).heap

\* C4 (as claimed): the first alternative that matches, no earlier one having
\* failed fatally, is accepted and its values are returned.
C4_FirstMatchReturned ==
    (Done /\ g.kind = "disjunction") =>
        \A i \in AltIndexes :
            (AltTried(i) /\ Matched(Alt(i))) =>
                /\ Matched(res)
                /\ ReturnedAlt(i)
                /\ Triple(ctx.lex) = Triple(Alt(i).ctx.lex)

\* C4 (amended): the first alternative that matches, no earlier one having
\* failed fatally, is accepted and its values are returned, and no later
\* alternative is parsed, provided it moved the raw cursor or stands at EOF;
\* if it did neither, the call panics.
C4_FirstMatchReturnedOrPanic ==
    (Done /\ g.kind = "disjunction") =>
        \A i \in AltIndexes :
            (AltTried(i) /\ Matched(Alt(i))) =>
                IF AltProgressed(i)
                THEN /\ Matched(res)
                     /\ ReturnedAlt(i)
                     /\ Triple(ctx.lex) = Triple(Alt(i).ctx.lex)
                ELSE res.panic

\* C4 witness: the first alternative failed, a later one matched and was
\* accepted, and the parent's cursor moved to the branch's.
C4_Witness ==
    /\ Done
    /\ g.kind = "disjunction"
    /\ Failed(Alt(1))
    /\ \E i \in AltIndexes : i > 1 /\ AltTried(i) /\ Matched(Alt(i))
    /\ Matched(res)
    /\ ctx.lex.cursor > pre.ctx.lex.cursor

\* The alternatives that returned an error, the deepest non-elided cursor
\* among their branches, and the alternatives that reached it.
ErrorAlts == { i \in AltIndexes : Failed(Alt(i)) }
DeepestCursor ==
    CHOOSE n \in { Alt(i).ctx.lex.cursor : i \in ErrorAlts } :
        \A i \in ErrorAlts : Alt(i).ctx.lex.cursor <= n
DeepestAlts == { i \in ErrorAlts : Alt(i).ctx.lex.cursor = DeepestCursor }
Earliest(S) == CHOOSE i \in S : \A j \in S : i <= j
Latest(S) == CHOOSE i \in S : \A j \in S : i >= j

\* every alternative was tried and none matched, failed fatally or panicked
NoAltTaken == Done /\ g.kind = "disjunction" /\ AltTried(Len(g.kids) + 1)

\* C5 (as claimed): when no alternative matches and none fails fatally, the
\* error and values of the alternative with the deepest cursor are returned,
\* the earliest such alternative on a tie; with no error at all, no-match.
C5_DeepestErrorEarliestOnTie ==
    NoAltTaken =>
        IF ErrorAlts # {}
        THEN /\ res.err = Alt(Earliest(DeepestAlts)).err
             /\ res.out = Alt(Earliest(DeepestAlts)).out
        ELSE NoMatch(res)

\* C5 (amended): as claimed, except that on a tie the error of the latest of
\* the tied alternatives is returned.
C5_DeepestErrorLatestOnTie ==
    NoAltTaken =>
        IF ErrorAlts # {}
        THEN /\ Failed(res)
             /\ res.err = Alt(Latest(DeepestAlts)).err
             /\ res.out = Alt(Latest(DeepestAlts)).out
        ELSE NoMatch(res)

\* C5 witness: two alternatives failed with different errors at the same,
\* deepest cursor, past the start.
C5_Witness ==
    /\ NoAltTaken
    /\ \E i, j \in DeepestAlts : i < j /\ Alt(i).err # Alt(j).err
    /\ DeepestCursor > pre.ctx.lex.cursor
    /\ Failed(res)

\* C6: when an alternative fails and Stop is true for its branch, its error
\* and values are returned at once and no later alternative is parsed; when
\* Stop is false, the next alternative is tried.
C6_FatalErrorReturnedAtOnce ==
    (Done /\ g.kind = "disjunction") =>
        \A i \in AltIndexes :
            /\ (AltTried(i) /\ AltFatal(g, i, pre.ctx, pre.heap)) =>
                  /\ Failed(res)
                  /\ ReturnedAlt(i)
                  /\ Triple(ctx.lex) = Triple(pre.ctx.lex)
            /\ (/\ AltTried(i) /\ Failed(Alt(i)) /\ ~AltFatal(g, i, pre.ctx, pre.heap)
                /\ i < Len(g.kids) /\ Matched(Alt(i + 1)) /\ AltProgressed(i + 1)) =>
                  Matched(res) /\ ReturnedAlt(i + 1)

\* C6 witness: the first alternative failed fatally although a later one
\* matches the input.
C6_Witness ==
    /\ Done
    /\ g.kind = "disjunction"
    /\ AltFatal(g, 1, pre.ctx, pre.heap)
    /\ \E j \in AltIndexes :
          j > 1 /\ Matched(Parse(g.kids[j], Branch(pre.ctx), pre.heap, RootRecord))
    /\ Failed(res)

\* The token a literal or reference node under test finds with PeekAny.
FoundToken ==
    PeekAny(pre.ctx.lex,
            IF g.kind = "literal"
            THEN { a \in Alphabet : literalMatch(g, pre.ctx, Token(a[1], a[2], 0)) }
            ELSE { a \in Alphabet : a[1] = g.t }).t

C8_NoMatchConsumesNothing ==
    (Done /\ NoMatch(res)) => Triple(ctx.lex) = Triple(pre.ctx.lex)

\* The literal of a zero-or-more group over a literal.
IsLiteralStar(nd) ==
    nd.kind = "group" /\ nd.s = groupMatchZeroOrMore /\ nd.kids[1].kind = "literal"

\* How many tokens that are not elided match the literal, from raw index i
\* up to the first one that does not.
RECURSIVE MatchingRun(_, _, _)
MatchingRun(lit, c, i) ==
    LET t == TokenAt(c.lex, i)
    IN  IF t = OutOfRange \/ IsEOF(t) THEN 0
        ELSE IF Elided(c.lex, t) THEN MatchingRun(lit, c, i + 1)
        ELSE IF literalMatch(lit, c, t) THEN 1 + MatchingRun(lit, c, i + 1)
        ELSE 0

\* How many elided tokens match the literal, from raw index i up to the
\* first token that is not elided and does not match.
RECURSIVE ElidedMatches(_, _, _)
ElidedMatches(lit, c, i) ==
    LET t == TokenAt(c.lex, i)
    IN  IF t = OutOfRange \/ IsEOF(t) THEN 0
        ELSE IF Elided(c.lex, t)
        THEN (IF literalMatch(lit, c, t) THEN 1 ELSE 0) + ElidedMatches(lit, c, i + 1)
        ELSE IF literalMatch(lit, c, t) THEN ElidedMatches(lit, c, i + 1)
        ELSE 0

RunLength == MatchingRun(g.kids[1], pre.ctx, pre.ctx.lex.nextCursor)

\* the group matched k times, returned k values and moved the cursor by k
StarMatched(k) ==
    /\ Matched(res)
    /\ Len(res.out.v) = k
    /\ ctx.lex.cursor = pre.ctx.lex.cursor + k
    /\ groupLoop(g, GroupStart(pre.ctx, pre.heap), RootRecord).matches = k

\* C10 (as claimed): a zero-or-more group over a literal, on an input whose
\* next k tokens that are not elided match the literal and whose following
\* one does not (k < MaxIterations), matches k times, returns k values and
\* moves the non-elided cursor by k.
C10_StarMatchesRun ==
    (Done /\ IsLiteralStar(g) /\ RunLength < MaxIterations) => StarMatched(RunLength)

\* C10 (amended): as claimed, provided no elided token before that following
\* token matches the literal.
C10_StarMatchesRunNoElidedMatch ==
    (/\ Done /\ IsLiteralStar(g) /\ RunLength < MaxIterations
     /\ ElidedMatches(g.kids[1], pre.ctx, pre.ctx.lex.rawCursor) = 0)
    => StarMatched(RunLength)

\* C10 witness: two matching tokens with a skipped elided token between them.
C10_Witness ==
    /\ Done
    /\ IsLiteralStar(g)
    /\ RunLength = 2
    /\ ctx.lex.rawCursor > pre.ctx.lex.rawCursor + 2
    /\ ElidedMatches(g.kids[1], pre.ctx, pre.ctx.lex.rawCursor) = 0
    /\ Len(res.out.v) = 2

\* C9: the loop body of a repeating group runs at most MaxIterations times
\* and the loop is then left; when every one of MaxIterations passes of a
\* * or + group matched, the call returns the iteration-limit error and no
\* values.
C9_GroupLoopBounded ==
    IsRepeatingGroup(g) =>
        /\ iters <= MaxIterations
        /\ (pc = "loop" /\ iters >= groupMax(g.s)) => ~groupContinues(g, loop)
        /\ (/\ Done /\ g.s # groupMatchZeroOrOne
            /\ iters = MaxIterations /\ loop.status = "loop") =>
              /\ res.err.kind = "too many iterations"
              /\ res.out.isnil

\* C9 witness: an inner node that matches without consuming input has run
\* MaxIterations times and the call has ended with the limit error.
C9_Witness ==
    /\ Done
    /\ IsRepeatingGroup(g)
    /\ iters = MaxIterations
    /\ Triple(loop.ctx.lex) = Triple(pre.ctx.lex)
    /\ res.err.kind = "too many iterations"

----------------------------------------------------------------------------
\* C3: in every state reachable from Upgrade, rawCursor <= nextCursor, every
\* token in [rawCursor, nextCursor) is elided, and the token at nextCursor is
\* EOF or not elided.
C3_CursorInvariant ==
    pc = "lexer" =>
        /\ p.rawCursor <= p.nextCursor
        /\ \A i \in p.rawCursor..(p.nextCursor - 1) :
              TokenAt(p, i) # OutOfRange /\ Elided(p, TokenAt(p, i))
        /\ LET t == TokenAt(p, p.nextCursor)
           IN  t # OutOfRange /\ (IsEOF(t) \/ ~Elided(p, t))

\* C3 witness: a FastForward or Next has left the raw cursor before an elided
\* run that the next cursor has skipped.
C3_Witness ==
    /\ pc = "lexer"
    /\ ret.op \in {"Next", "FastForward"}
    /\ p.rawCursor > 0
    /\ p.nextCursor > p.rawCursor
    /\ ~IsEOF(TokenAt(p, p.nextCursor))

----------------------------------------------------------------------------
IsZeroMinGroup(nd) ==
    nd.kind = "group" /\ nd.s \in {groupMatchZeroOrOne, groupMatchZeroOrMore}

\* The head of the sequence under test, parsed where the sequence starts.
HeadResult == Parse(g.kids[1], pre.ctx, pre.heap, RootRecord)

\* C11: a ? or * group that returns a nil error returns a non-nil value list,
\* and a sequence whose head is such a group that returned without error
\* does not return no-match: it went on to its next element.
C11_ZeroMinGroupNeverNoMatch ==
    Done =>
        /\ (IsZeroMinGroup(g) /\ ~res.panic /\ res.err = NoError) => ~res.out.isnil
        /\ (/\ g.kind = "sequence" /\ IsZeroMinGroup(g.kids[1])
            /\ ~HeadResult.panic /\ HeadResult.err = NoError) =>
              /\ Matched(HeadResult)
              /\ ~NoMatch(res)

\* C11 witness: a sequence whose optional head captured nothing went on and
\* matched its second element.
C11_Witness ==
    /\ Done
    /\ g.kind = "sequence"
    /\ IsZeroMinGroup(g.kids[1])
    /\ Matched(HeadResult)
    /\ HeadResult.out.v = <<>>
    /\ Matched(res)
    /\ Len(res.out.v) = 1

----------------------------------------------------------------------------
(* SpecQueued: one Parse call of a node that comes after a capture, so that *)
(* the context already holds a deferred assignment when the node is parsed. *)

QueuedInners == Leaves \cup Inners \cup {capture("A", la), capture("A", sequence(<<la, lb>>))}

\* The elements of the sequences of three nodes.
QueuedParts == {la, lb, group(la, groupMatchZeroOrOne), lookaheadGroup(la, FALSE)}

QueuedGrammars ==
    { lookaheadGroup(x, neg) : x \in QueuedInners, neg \in BOOLEAN }
    \cup { negation(x) : x \in QueuedInners }
    \cup { sequence(<<x, y, z>>) : x, y, z \in QueuedParts }

\* The queues a context may hold on entry: none, or @A of the Root record.
Queued(c) == { c, Defer(c, <<>>, RootRecord, "A", <<StringValue("b")>>) }

InitQueued ==
    /\ g \in QueuedGrammars
    /\ \E lex \in Producers, elide \in ParserElideSets, lookahead \in Lookaheads,
          ci \in CaseInsensitive :
          ctx \in Queued(NewContext(Upgrade(lex, elide), lookahead, ci))
    /\ heap = <<NewRecord("Root")>>
    /\ pre = [ctx |-> ctx, heap |-> heap]
    /\ res = Result(NilValues, NoError, ctx, heap)
    /\ pc = "ready"
    /\ loop = <<>> /\ iters = 0
    /\ p = <<>> /\ prev = <<>> /\ ret = <<>> /\ saved = {} /\ peekingLexerPool = {}

SpecQueued == InitQueued /\ [][Next]_vars

\* What the inner node of the node under test returns, parsed in a fresh
\* branch of the context.
InnerResult == Parse(g.kids[1], Branch(pre.ctx), pre.heap, RootRecord)

\* C12: lookaheadGroup.Parse leaves the cursor triple and the queue of
\* deferred assignments as they were; a positive lookahead returns an empty
\* non-nil list exactly when the inner node matched, a negative one exactly
\* when it did not, and otherwise the call returns an UnexpectedToken error
\* for the token at Peek().
C12_LookaheadFrame ==
    (Done /\ g.kind = "lookaheadGroup" /\ ~res.panic) =>
        /\ Triple(ctx.lex) = Triple(pre.ctx.lex)
        /\ ctx.apply = pre.ctx.apply
        /\ IF Matched(InnerResult) = (g.s = "positive")
           THEN Matched(res) /\ res.out.v = <<>>
           ELSE /\ res.err # NoError
                /\ res.err.kind = "UnexpectedToken"
                /\ res.err.tok = Peek(pre.ctx.lex)

\* C12 witness: a negative lookahead, entered with an assignment pending,
\* whose inner capture matched, moved its branch and queued an assignment.
C12_Witness ==
    /\ Done
    /\ g.kind = "lookaheadGroup"
    /\ g.s = "negative"
    /\ Len(pre.ctx.apply) = 1
    /\ Matched(InnerResult)
    /\ Len(InnerResult.ctx.apply) > 0
    /\ InnerResult.ctx.lex.cursor > pre.ctx.lex.cursor
    /\ res.err # NoError
    /\ res.err.kind = "UnexpectedToken"

----------------------------------------------------------------------------
\* C13: negation.Parse returns no-match and consumes nothing at EOF;
\* returns an UnexpectedToken error and consumes nothing when its inner node
\* matched; and otherwise consumes exactly the token at Peek(), which is not
\* elided, and returns that token's value as its only value.
C13_Negation ==
    (Done /\ g.kind = "negation" /\ ~res.panic) =>
        LET notEOF == Peek(pre.ctx.lex)
        IN  IF IsEOF(notEOF)
            THEN NoMatch(res) /\ Triple(ctx.lex) = Triple(pre.ctx.lex)
            ELSE IF Matched(InnerResult)
            THEN /\ res.err # NoError
                 /\ res.err.kind = "UnexpectedToken"
                 /\ Triple(ctx.lex) = Triple(pre.ctx.lex)
            ELSE /\ Matched(res)
                 /\ res.out.v = <<StringValue(notEOF.Value)>>
                 /\ ~Elided(pre.ctx.lex, notEOF)
                 /\ ctx.lex.cursor = pre.ctx.lex.cursor + 1
                 /\ ctx.lex.rawCursor = pre.ctx.lex.nextCursor + 1

\* C13 witness: behind an elided run, the inner node failed with an error
\* after moving its branch, and the negation consumed one token.
C13_Witness ==
    /\ Done
    /\ g.kind = "negation"
    /\ pre.ctx.lex.rawCursor < pre.ctx.lex.nextCursor
    /\ Failed(InnerResult)
    /\ InnerResult.ctx.lex.cursor > pre.ctx.lex.cursor
    /\ Matched(res)
    /\ ctx.lex.cursor = pre.ctx.lex.cursor + 1

----------------------------------------------------------------------------
\* What the i-th child of the sequence under test returns, parsed on the
\* context and records the children before it left.
RECURSIVE ChildResult(_)
ChildResult(i) ==
    IF i = 1 THEN Parse(g.kids[1], pre.ctx, pre.heap, RootRecord)
    ELSE LET before == ChildResult(i - 1)
         IN  Parse(g.kids[i], before.ctx, before.heap, RootRecord)

\* The values of the children 1..i, in order.
RECURSIVE ChildValues(_)
ChildValues(i) == IF i = 0 THEN <<>> ELSE ChildValues(i - 1) \o ChildResult(i).out.v

ChildrenMatched(i) == \A j \in 1..i : Matched(ChildResult(j))

\* C14: sequence.Parse returns no-match when its first child returns
\* no-match; when a later child returns no-match it returns an
\* UnexpectedToken error for the token at Peek() with the values of the
\* children before it; when every child matches it returns the non-nil list
\* of their values, empty if none of them captured anything.
C14_Sequence ==
    (Done /\ g.kind = "sequence") =>
        /\ \A i \in 1..Len(g.kids) :
              (ChildrenMatched(i - 1) /\ NoMatch(ChildResult(i))) =>
                  IF i = 1 THEN NoMatch(res)
                  ELSE /\ res.err # NoError
                       /\ res.err.kind = "UnexpectedToken"
                       /\ res.err.tok = Peek(ChildResult(i).ctx.lex)
                       /\ res.out.v = ChildValues(i - 1)
        /\ ChildrenMatched(Len(g.kids)) =>
              /\ Matched(res)
              /\ res.out.v = ChildValues(Len(g.kids))

\* C14 witness: the third child of a sequence returned no-match after the
\* first two had matched and left a value.
C14_Witness ==
    /\ Done
    /\ g.kind = "sequence"
    /\ Len(g.kids) = 3
    /\ ChildrenMatched(2)
    /\ NoMatch(ChildResult(3))
    /\ Len(ChildValues(2)) > 0
    /\ res.err # NoError
    /\ res.err.kind = "UnexpectedToken"

----------------------------------------------------------------------------
\* The node a struct's expression starts with.
RECURSIVE LeadNode(_)
LeadNode(nd) == IF nd.kind \in {"capture", "sequence"} THEN LeadNode(nd.kids[1]) ELSE nd

StartsWithToken(nd) == LeadNode(nd).kind \in {"literal", "reference"}

\* Whether token t is one the literal or reference nd takes.
TokenMatches(nd, c, t) ==
    IF nd.kind = "literal" THEN literalMatch(nd, c, t) ELSE t.Type = nd.t

\* The first token a struct that starts with a literal or reference matches:
\* the first one from the raw cursor on that the leading node takes or that
\* is not elided.
FirstMatched ==
    LET l == pre.ctx.lex
        lead == LeadNode(g.kids[1])
        hit(i) == LET t == TokenAt(l, i)
                  IN  IsEOF(t) \/ TokenMatches(lead, pre.ctx, t) \/ ~Elided(l, t)
        i == CHOOSE k \in l.rawCursor..(Len(l.tokens) - 1) :
                 hit(k) /\ \A j \in l.rawCursor..(k - 1) : ~hit(j)
    IN  TokenAt(l, i)

\* The record a successful strct.Parse returns.
StructRecord == heap[res.out.v[1].n]

StructMatched ==
    Done /\ g.kind = "strct" /\ Matched(res) /\ HasField(g.s, "Pos")

\* EndPos and Tokens as C15 states them: the position of the token after the
\* last one consumed, and the raw tokens from the raw cursor on entry to the
\* raw cursor on exit.
EndPosAndTokens ==
    /\ StructRecord.f.EndPos.n = TokenAt(ctx.lex, ctx.lex.rawCursor).Pos
    /\ StructRecord.f.Tokens.l =
          SubSeq(pre.ctx.lex.tokens, pre.ctx.lex.rawCursor + 1, ctx.lex.rawCursor)

\* C15 (as claimed): after a successful strct.Parse on a type with Pos,
\* EndPos and Tokens, Pos is the position of the first token the struct
\* matched, EndPos that of the token after the last matched one, and Tokens
\* the raw tokens from the raw cursor on entry to the raw cursor on exit.
C15_StructPositions ==
    (StructMatched /\ StartsWithToken(g.kids[1])) =>
        /\ StructRecord.f.Pos.n = FirstMatched.Pos
        /\ EndPosAndTokens

\* C15 (amended): Pos is the position of the token at Peek() on entry, which
\* is the first matched token unless that one is elided; EndPos and Tokens
\* are as claimed.
C15_StructPositionsFromPeek ==
    StructMatched =>
        /\ StructRecord.f.Pos.n = Peek(pre.ctx.lex).Pos
        /\ (StartsWithToken(g.kids[1]) /\ ~Elided(pre.ctx.lex, FirstMatched)) =>
              StructRecord.f.Pos.n = FirstMatched.Pos
        /\ EndPosAndTokens

\* C15 witness: a struct matched three raw tokens, an elided one among them.
C15_Witness ==
    /\ StructMatched
    /\ StartsWithToken(g.kids[1])
    /\ Len(StructRecord.f.Tokens.l) = 3
    /\ \E i \in 1..3 : Elided(pre.ctx.lex, StructRecord.f.Tokens.l[i])
    /\ StructRecord.f.Pos.n = FirstMatched.Pos
    /\ StructRecord.f.EndPos.n = StructRecord.f.Pos.n + 3

----------------------------------------------------------------------------
Called(op) == pc = "lexer" /\ ret.op = op

\* The lexer as it was when checkpoint c was taken: the tokens and the elide
\* set never change, so it is the lexer with the triple of c.
StateAt(c) == LoadCheckpoint(prev, c)

\* C16: LoadCheckpoint(MakeCheckpoint()) changes nothing, and LoadCheckpoint
\* of a checkpoint taken earlier, whatever was called in between, restores
\* the triple of that moment and nothing else, so that Peek, RawPeek and
\* PeekAny return what they returned then.
C16_CheckpointRestores ==
    pc = "lexer" =>
        /\ LoadCheckpoint(p, MakeCheckpoint(p)) = p
        /\ p.tokens = prev.tokens /\ p.elide = prev.elide
        /\ Called("LoadCheckpoint") =>
              \E c \in saved :
                  /\ Triple(p) = <<c.rawCursor, c.nextCursor, c.cursor>>
                  /\ Peek(p) = Peek(StateAt(c))
                  /\ RawPeek(p) = RawPeek(StateAt(c))
                  /\ \A match \in Predicates : PeekAny(p, match) = PeekAny(StateAt(c), match)

\* C16 witness: a checkpoint was loaded after the lexer had moved on, and
\* all three cursors went back.
C16_Witness ==
    /\ Called("LoadCheckpoint")
    /\ p.rawCursor < prev.rawCursor
    /\ p.nextCursor < prev.nextCursor
    /\ p.cursor < prev.cursor
    /\ p.rawCursor < p.nextCursor

\* C17 (as claimed): Peek never returns a token whose type is elided.
C17_PeekNeverElided ==
    Called("Peek") => ~Elided(p, ret.t)

\* C17 (amended): Peek never returns a token whose type is elided, except
\* the EOF token that ends the stream.
C17_PeekNeverElidedButEOF ==
    Called("Peek") => (IsEOF(ret.t) \/ ~Elided(p, ret.t))

\* C17 witness: RawPeek returned an elided token that Peek skips.
C17_Witness ==
    /\ Called("RawPeek")
    /\ ~IsEOF(ret.t)
    /\ Elided(p, ret.t)
    /\ Peek(p) # ret.t
    /\ ~Elided(p, Peek(p))

\* C18: at EOF Next returns the EOF token and moves no cursor; otherwise it
\* returns the token Peek would have returned, puts the raw cursor one past
\* that token and adds one to the non-elided cursor.
C18_Next ==
    Called("Next") =>
        /\ ret.t = Peek(prev)
        /\ IF IsEOF(Peek(prev))
           THEN Triple(p) = Triple(prev)
           ELSE /\ p.rawCursor = prev.nextCursor + 1
                /\ p.cursor = prev.cursor + 1

\* C18 witness: Next consumed a token that lay behind an elided run.
C18_Witness ==
    /\ Called("Next")
    /\ prev.rawCursor < prev.nextCursor
    /\ ~IsEOF(ret.t)
    /\ p.rawCursor = prev.rawCursor + 2

----------------------------------------------------------------------------
\* Whether PeekAny(match) stops at raw index i of lexer l.
Stops(l, match, i) ==
    LET t == TokenAt(l, i)
    IN  IsEOF(t) \/ <<t.Type, t.Value>> \in match \/ ~Elided(l, t)

\* C19: PeekAny(pred) returns the token at the smallest index from the raw
\* cursor on that holds EOF, a token satisfying pred or a token that is not
\* elided, together with that index, which lies between the raw cursor and
\* the next cursor; the call changes no cursor.
C19_PeekAny ==
    pc = "lexer" =>
        /\ \A match \in Predicates :
              LET r == PeekAny(p, match)
              IN  /\ p.rawCursor <= r.rawCursor /\ r.rawCursor <= p.nextCursor
                  /\ r.t = TokenAt(p, r.rawCursor)
                  /\ r.t # OutOfRange
                  /\ Stops(p, match, r.rawCursor)
                  /\ \A j \in p.rawCursor..(r.rawCursor - 1) : ~Stops(p, match, j)
        /\ Called("PeekAny") =>
              /\ Triple(p) = Triple(prev)
              /\ \E match \in Predicates :
                    ret.t = PeekAny(prev, match).t /\ ret.rawCursor = PeekAny(prev, match).rawCursor

\* C19 witness: PeekAny returned an elided token inside the elided run, past
\* the raw cursor and before the next cursor.
C19_Witness ==
    /\ Called("PeekAny")
    /\ p.rawCursor < ret.rawCursor
    /\ ret.rawCursor < p.nextCursor
    /\ Elided(p, ret.t)

\* The number of tokens that are not elided at the raw indexes a..b.
RECURSIVE NonElidedIn(_, _, _)
NonElidedIn(l, a, b) ==
    IF a > b THEN 0
    ELSE (IF Elided(l, TokenAt(l, a)) THEN 0 ELSE 1) + NonElidedIn(l, a + 1, b)

\* The index of the EOF token.
EOFIndex(l) == Len(l.tokens) - 1

\* The indexes PeekAny can return in lexer l.
PeekAnyIndexes(l) == { PeekAny(l, match).rawCursor : match \in Predicates }

\* C20: FastForward(r), with r an index PeekAny returns, leaves the raw
\* cursor at r + 1, or at the EOF index if r is the EOF index; the
\* non-elided cursor grows by the number of tokens passed that are not
\* elided; the next cursor ends at the first index from the new raw cursor
\* on that holds EOF or a token that is not elided.
C20_FastForward ==
    (Called("FastForward") /\ ret.rawCursor \in PeekAnyIndexes(prev)) =>
        LET r == ret.rawCursor
            end == IF r >= EOFIndex(prev) THEN EOFIndex(prev) ELSE r + 1
        IN  /\ p.rawCursor = end
            /\ p.cursor = prev.cursor + NonElidedIn(prev, prev.rawCursor, end - 1)
            /\ p.nextCursor >= p.rawCursor
            /\ Stops(p, {}, p.nextCursor)
            /\ \A j \in p.rawCursor..(p.nextCursor - 1) : ~Stops(p, {}, j)

\* C20 witness: FastForward to an elided token that PeekAny returned, with
\* another elided token after it that the next cursor then skips.
C20_Witness ==
    /\ Called("FastForward")
    /\ ret.rawCursor \in PeekAnyIndexes(prev)
    /\ Elided(prev, TokenAt(prev, ret.rawCursor))
    /\ p.rawCursor = prev.rawCursor + 1
    /\ p.cursor = prev.cursor
    /\ p.nextCursor > p.rawCursor

----------------------------------------------------------------------------
(* SpecPool: a client that takes its PeekingLexer from peekingLexerPool,   *)
(* reads with it and puts it back, one document after the other.           *)

\* The lexers and elide lists of the documents.
PoolProducers == { Producer(raw) : raw \in SeqsUpTo({<<Ident, "a">>, <<WS, " ">>}, MaxLen) }
PoolElideSets == { {}, {WS}, {Ident} }

InitPool ==
    /\ p = <<>> /\ prev = <<>> /\ ret = <<>> /\ saved = {}
    /\ peekingLexerPool = {}
    /\ g = NoNode /\ ctx = <<>> /\ heap = <<>> /\ pre = <<>> /\ res = <<>> /\ loop = <<>>
    /\ iters = 0 /\ pc = "idle"

\* peekingLexerPool.Get(): a pooled instance, or a new one when there is none
PoolGet == IF peekingLexerPool = {} THEN {NewPeekingLexer} ELSE peekingLexerPool

DoUpgradePooled ==
    /\ pc = "idle"
    /\ \E lex \in PoolProducers, elide \in PoolElideSets, r \in PoolGet :
           /\ p' = UpgradePooled(lex, r, elide)
           /\ prev' = r
           /\ ret' = [op |-> "UpgradePooled", lex |-> lex, elide |-> elide]
           /\ peekingLexerPool' = peekingLexerPool \ {r}
    /\ pc' = "pooled"
    /\ UNCHANGED <<saved, g, ctx, heap, pre, res, loop, iters>>

\* The client reads from the lexer it holds.
PoolNext == pc = "pooled" /\ DoNext

PoolFastForward == pc = "pooled" /\ DoFastForward

DoPutBackPooledPeekingLexer ==
    /\ pc = "pooled"
    /\ peekingLexerPool' = PutBackPooledPeekingLexer(peekingLexerPool, p)
    /\ p' = <<>> /\ prev' = <<>> /\ ret' = <<>>
    /\ pc' = "idle"
    /\ UNCHANGED <<saved, g, ctx, heap, pre, res, loop, iters>>

\* The garbage collector empties the pool.
PoolDrop ==
    /\ pc = "idle" /\ peekingLexerPool # {}
    /\ peekingLexerPool' = {}
    /\ UNCHANGED <<p, prev, ret, saved, parseVars>>

NextPool ==
    \/ DoUpgradePooled
    \/ PoolNext
    \/ PoolFastForward
    \/ DoPutBackPooledPeekingLexer
    \/ PoolDrop

SpecPool == InitPool /\ [][NextPool]_vars

\* UpgradePooled has just returned p
Pooled == pc = "pooled" /\ ret.op = "UpgradePooled"

\* C21: UpgradePooled on a recycled instance yields the lexer that Upgrade
\* yields for the same producer and elide list: cursors recomputed from zero,
\* only the new producer's tokens, only the new elide types, whatever state
\* the instance was in when it was put back.
C21_UpgradePooledIsUpgrade ==
    Pooled => p = Upgrade(ret.lex, ret.elide)

\* A recycled instance that was put back with tokens, moved cursors and an
\* elided type, and is reused for another document with another elide list.
C21_Witness ==
    /\ Pooled
    /\ prev # NewPeekingLexer
    /\ prev.rawCursor > 0 /\ prev.cursor > 0
    /\ prev.elide # {} /\ prev.elide \cap ret.elide = {}
    /\ \E i \in 1..Len(ret.lex) : ret.lex[i].Type \in prev.elide
    /\ Len(prev.tokens) > Len(ret.lex)
    /\ p = Upgrade(ret.lex, ret.elide)

----------------------------------------------------------------------------
(* SpecField: captured values bound, one capture after the other, to the   *)
(* numeric field N and the boolean field Flag of one Root record.          *)

\* The fields bound and the values a capture hands to setField.
BoundFields == {"N", "Flag"}
Captured == { StringValue(s) : s \in {"a", "-", "0", "1", "2"} }
FieldValues == SeqsUpTo(Captured, 2)

InitField ==
    /\ heap = <<NewRecord("Root")>>
    /\ pre = [heap |-> heap]
    /\ res = [field |-> "", fieldValue |-> <<>>, err |-> NoError]
    /\ pc = "bind"
    /\ g = NoNode /\ ctx = <<>> /\ loop = <<>> /\ iters = 0
    /\ p = <<>> /\ prev = <<>> /\ ret = <<>> /\ saved = {} /\ peekingLexerPool = {}

DoSetField ==
    /\ pc \in {"bind", "bound"}
    /\ \E field \in BoundFields, fieldValue \in FieldValues :
           LET r == setField(heap, <<>>, RootRecord, field, fieldValue)
           IN  /\ heap' = r.heap
               /\ res' = [field |-> field, fieldValue |-> fieldValue, err |-> r.err]
    /\ pre' = [heap |-> heap]
    /\ pc' = "bound"
    /\ UNCHANGED <<g, ctx, loop, iters, lexVars>>

SpecField == InitField /\ [][DoSetField]_vars

\* setField has just bound one captured value that is not a number to N
NonNumericBound ==
    /\ pc = "bound" /\ res.field = "N"
    /\ Len(res.fieldValue) = 1
    /\ ~ParsesAsInt(StringOf(res.fieldValue[1]))

FieldN(h) == h[RootRecord].f.N.n

\* C22: a captured value that is not a valid number, bound by setField to a
\* numeric field, increases the field by 1 and returns no error.
C22_NonNumericIncrements ==
    NonNumericBound => res.err = NoError /\ FieldN(heap) = FieldN(pre.heap) + 1

\* What setField does instead: conform returns the error of the failed
\* number parse, setField returns it and the field keeps its value.
C22_NonNumericFails ==
    NonNumericBound => res.err # NoError /\ heap = pre.heap

\* The flag "a" captured when N already holds a number.
C22_Witness ==
    NonNumericBound /\ res.fieldValue = <<StringValue("a")>> /\ FieldN(pre.heap) = 2

----------------------------------------------------------------------------
(* The progress check of disjunction.Parse. *)

\* Alternative i is the one the loop of disjunction.Parse found matched, and
\* its branch stands where the parent stands, at a token other than EOF.
AltMatchedInPlace(i) ==
    /\ AltTried(i) /\ Matched(Alt(i))
    /\ Alt(i).ctx.lex.rawCursor = pre.ctx.lex.rawCursor
    /\ RawPeek(Alt(i).ctx.lex).Type # EOF

\* C23: whenever disjunction.Parse accepts an alternative, the branch's raw
\* cursor is strictly greater than the parent's on entry or the token at the
\* raw cursor is EOF; an alternative that matched without moving the raw
\* cursor at a token other than EOF is never accepted nor returned as a
\* success: the call panics.
C23_AcceptedProgressed ==
    (Done /\ g.kind = "disjunction") =>
        /\ Matched(res) =>
               \/ ctx.lex.rawCursor > pre.ctx.lex.rawCursor
               \/ RawPeek(ctx.lex).Type = EOF
        /\ \A i \in AltIndexes :
               AltMatchedInPlace(i) =>
                   /\ res.panic /\ ~Matched(res)
                   /\ ctx = pre.ctx

\* C23 witness: an alternative that matched in place at a token other than
\* EOF, after an earlier alternative that did not match, and the panic.
C23_Witness ==
    /\ Done /\ g.kind = "disjunction"
    /\ \E i \in AltIndexes : i > 1 /\ AltMatchedInPlace(i)
    /\ res.panic

----------------------------------------------------------------------------
(* The iteration limit of group.Parse. *)

LimitError == res.err.kind = "too many iterations"

\* After the loop of group.Parse, one more pass of the inner node would match:
\* the input allows more matches than the loop has counted.
AllowsMore == Matched(Parse(g.kids[1], Branch(loop.ctx), loop.heap, RootRecord))

\* C24: a group returns the iteration-limit error only when its inner
\* expression matched more than MaxIterations times; an input that allows
\* MaxIterations or fewer consecutive matches is returned as a successful
\* match with all of them.
C24_LimitOnlyWhenExceeded ==
    (Done /\ IsRepeatingGroup(g) /\ loop.status # "panic") =>
        /\ LimitError => (loop.matches > MaxIterations \/ AllowsMore)
        /\ (loop.matches <= MaxIterations /\ ~AllowsMore /\ loop.err = NoError
            /\ loop.matches >= groupMin(g.s)) =>
               Matched(res) /\ res.out = loop.out

\* What group.Parse does instead: the limit error is returned as soon as the
\* inner expression has matched MaxIterations times, whatever follows.
C24_LimitAtMaxIterations ==
    (Done /\ IsRepeatingGroup(g) /\ ~(loop.status \in {"panic", "return"})) =>
        (LimitError <=> loop.matches = MaxIterations)

\* Exactly MaxIterations matches, each of which consumed a token, no further
\* match possible, and the limit error.
C24_Witness ==
    /\ Done /\ IsRepeatingGroup(g)
    /\ loop.matches = MaxIterations /\ ~AllowsMore
    /\ loop.ctx.lex.cursor = pre.ctx.lex.cursor + MaxIterations
    /\ IsEOF(Peek(loop.ctx.lex))
    /\ LimitError

----------------------------------------------------------------------------
(* The non-empty group. *)

IsNonEmptyGroup(nd) == nd.kind = "group" /\ nd.s = groupMatchNonEmpty

\* What the inner node of a non-empty group returns: it is parsed on the
\* group's own context.
NonEmptyInner == Parse(g.kids[1], pre.ctx, pre.heap, RootRecord)

EmptyError == res.err.kind = "cannot be empty"

\* C25: a non-empty group returns the 'cannot be empty' error only when its
\* inner expression matched (nil error, non-nil values) with zero captures;
\* when the inner expression returns no-match the group returns no-match, and
\* when it returns an error the group returns that error unchanged.
C25_EmptyOnlyWhenMatched ==
    (Done /\ IsNonEmptyGroup(g)) =>
        /\ EmptyError => (Matched(NonEmptyInner) /\ Len(NonEmptyInner.out.v) = 0)
        /\ NoMatch(NonEmptyInner) => NoMatch(res)
        /\ Failed(NonEmptyInner) => res = NonEmptyInner

\* What group.Parse does instead: the error is returned whenever the inner
\* expression returned no error and no captures, no-match included.
C25_EmptyAlsoOnNoMatch ==
    (Done /\ IsNonEmptyGroup(g)) =>
        /\ EmptyError <=> (/\ ~NonEmptyInner.panic /\ NonEmptyInner.err = NoError
                            /\ Len(NonEmptyInner.out.v) = 0)
        /\ EmptyError => res.out = NonEmptyInner.out /\ ctx = NonEmptyInner.ctx
        /\ Failed(NonEmptyInner) => res = NonEmptyInner

\* The inner expression returned no-match and the group the error.
C25_Witness ==
    /\ Done /\ IsNonEmptyGroup(g)
    /\ NoMatch(NonEmptyInner)
    /\ EmptyError /\ res.out.isnil

----------------------------------------------------------------------------
(* SpecUnion: a union of two struct types, each of them a value-style or a *)
(* pointer-style member, parsed with the Root record as parent.            *)

\* The alternatives: one struct node for each member type.
UnionAlternatives ==
    <<strct("Inner", capture("H", la)), strct("Root", capture("A", lb))>>

\* The member types, in the order of the alternatives.
UnionMembers ==
    { <<Type("Inner", pa), Type("Root", pb)>> : pa, pb \in BOOLEAN }

\* The types that implement the sum type: every member, the pointer to a
\* value-style member (Go's method sets), and, if its methods have value
\* receivers, the struct type of a pointer-style member.
Implementers(members) ==
    { S \in SUBSET { Type(n, pt) : n \in {"Inner", "Root"}, pt \in BOOLEAN } :
        \A i \in 1..Len(members) :
            /\ members[i] \in S
            /\ Type(members[i].name, TRUE) \in S }

Unions ==
    { union("Sum", m, S, disjunction(UnionAlternatives)) :
        m \in UnionMembers, S \in UNION { Implementers(mm) : mm \in UnionMembers } }

InitUnion ==
    /\ g \in { u \in Unions : u.implements \in Implementers(u.members) }
    /\ \E lex \in Producers, elide \in ParserElideSets, lookahead \in Lookaheads,
          ci \in CaseInsensitive :
          ctx = NewContext(Upgrade(lex, elide), lookahead, ci)
    /\ heap = <<NewRecord("Root")>>
    /\ pre = [ctx |-> ctx, heap |-> heap]
    /\ res = Result(NilValues, NoError, ctx, heap)
    /\ pc = "ready"
    /\ loop = <<>> /\ iters = 0
    /\ p = <<>> /\ prev = <<>> /\ ret = <<>> /\ saved = {} /\ peekingLexerPool = {}

DoParseUnion ==
    /\ pc = "ready"
    /\ LET r == unionReturn(g, Parse(g.disjunction, ctx, heap, RootRecord))
       IN  /\ res' = r
           /\ ctx' = r.ctx
           /\ heap' = r.heap
    /\ pre' = [ctx |-> ctx, heap |-> heap]
    /\ pc' = "done"
    /\ UNCHANGED <<g, loop, iters, lexVars>>

NextUnion == Skip \/ DoParseUnion

SpecUnion == InitUnion /\ [][NextUnion]_vars

\* union.Parse succeeded because the k-th alternative of its disjunction
\* matched.
UnionMatched(k) ==
    /\ Done /\ g.kind = "union" /\ Matched(res)
    /\ AltsPassed(g.disjunction, k - 1, pre.ctx, pre.heap)
    /\ Matched(AltResult(g.disjunction, k, pre.ctx, pre.heap))

AddressTaken == res.out.v[1].k = "ptr"

\* C26: when union.Parse succeeds because the k-th alternative matched, the
\* returned value is converted with the k-th member type of the union: its
\* address is taken exactly when that member is a pointer-style variant.
C26_ConvertedWithMatchedMember ==
    \A k \in 1..2 : UnionMatched(k) => (AddressTaken <=> g.members[k].ptr)

\* What union.Parse does instead: the one value returned is converted with
\* the first member type, whichever alternative matched.
C26_ConvertedWithFirstMember ==
    \A k \in 1..2 :
        UnionMatched(k) =>
            /\ Len(res.out.v) = 1
            /\ AddressTaken <=> g.members[1].ptr
            /\ res.out.v[1].s = g.disjunction.kids[k].s

\* The second alternative matched, the first member is pointer-style and the
\* second is not, and the address of the value was taken.
C26_Witness ==
    /\ UnionMatched(2)
    /\ g.members[1].ptr /\ ~g.members[2].ptr
    /\ AddressTaken

----------------------------------------------------------------------------
(* SpecSwitch: a disjunction of literals, parsed by disjunction.Parse or by *)
(* the code that disjunction.Generate writes for it.                       *)

\* generateLiteralSwitch returns true: every alternative is a literal without
\* a token type.
generateLiteralSwitch(d) ==
    \A i \in 1..Len(d.kids) : d.kids[i].kind = "literal" /\ d.kids[i].t = EOF

\* The case list of the generated switch.
literalSwitchCases(d) == { d.kids[i].s : i \in 1..Len(d.kids) }

\* gen.processToken: the generated code takes the token Peek() returned.
processToken(c, h) ==
    Result(Values(<<StringValue(Peek(c.lex).Value)>>), NoError,
           [c EXCEPT !.lex = PeekingLexerNext(c.lex).l], h)

\* gen.handleMismatchIndent: the generated code leaves for the error label.
handleMismatch(c, h) == Result(NilValues, NoError, c, h)

\* The generated code: switch c.Lex.Peek().Value { case <literals>: ...
\* default: ... }
literalSwitch(d, c, h) ==
    IF Peek(c.lex).Value \in literalSwitchCases(d) THEN processToken(c, h)
    ELSE handleMismatch(c, h)

lA == literal("A", EOF)
SwitchLiterals == {la, lb, lsp, lA, laT}
SwitchGrammars == { disjunction(<<x, y>>) : x, y \in SwitchLiterals }
SwitchCaseInsensitive == { {}, {Ident} }

InitSwitch ==
    /\ g \in SwitchGrammars
    /\ \E lex \in Producers, elide \in ParserElideSets, lookahead \in Lookaheads,
          ci \in SwitchCaseInsensitive :
          ctx = NewContext(Upgrade(lex, elide), lookahead, ci)
    /\ heap = <<NewRecord("Root")>>
    /\ pre = [ctx |-> ctx, heap |-> heap]
    /\ res = Result(NilValues, NoError, ctx, heap)
    /\ pc = "ready"
    /\ loop = <<>> /\ iters = 0
    /\ p = <<>> /\ prev = <<>> /\ ret = <<>> /\ saved = {} /\ peekingLexerPool = {}

DoLiteralSwitch ==
    /\ pc = "ready"
    /\ generateLiteralSwitch(g)
    /\ LET r == literalSwitch(g, ctx, heap)
       IN  /\ res' = r
           /\ ctx' = r.ctx
           /\ heap' = r.heap
    /\ pre' = [ctx |-> ctx, heap |-> heap]
    /\ pc' = "switched"
    /\ UNCHANGED <<g, loop, iters, lexVars>>

NextSwitch == Skip \/ DoParse \/ DoLiteralSwitch

SpecSwitch == InitSwitch /\ [][NextSwitch]_vars

\* What the two ways of parsing return from the state before the call.
Generic == Parse(g, pre.ctx, pre.heap, RootRecord)
Switched == literalSwitch(g, pre.ctx, pre.heap)

\* One of the two has run on a disjunction the switch is generated for.
SwitchCase == pc \in {"done", "switched"} /\ generateLiteralSwitch(g)

SameOutcome(a, b) ==
    /\ Matched(a) <=> Matched(b)
    /\ Triple(a.ctx.lex) = Triple(b.ctx.lex)
    /\ a.out = b.out

\* C27: for a disjunction whose alternatives are all untyped literals, the
\* literal switch matches, consumes and rejects exactly the same inputs, with
\* the same resulting cursor triple, as disjunction.Parse, for every token
\* stream, elision set and case-insensitive type set.
C27_SwitchIsGeneric ==
    SwitchCase => SameOutcome(Switched, Generic)

\* No token that disjunction.Parse may take needs folding or is elided: the
\* next token's type is not case-insensitive and no elided token before it
\* matches an alternative.
PlainInput ==
    /\ Peek(pre.ctx.lex).Type \notin pre.ctx.caseInsensitive
    /\ \A i \in pre.ctx.lex.rawCursor..(pre.ctx.lex.nextCursor - 1) :
           \A k \in 1..Len(g.kids) :
               ~literalMatch(g.kids[k], pre.ctx, TokenAt(pre.ctx.lex, i))

\* Where the two agree: on the inputs that need neither.
C27_SwitchIsGenericOnPlainInput ==
    (SwitchCase /\ PlainInput) => SameOutcome(Switched, Generic)

\* The generated switch has rejected an input that disjunction.Parse matches.
C27_Witness ==
    /\ pc = "switched" /\ generateLiteralSwitch(g)
    /\ NoMatch(res) /\ Matched(Generic)

----------------------------------------------------------------------------
(* The non-elided cursor and the bounds of the token array. *)

\* C28: in every lexer state reachable from Upgrade by Next, FastForward and
\* LoadCheckpoint of earlier checkpoints, the non-elided cursor equals the
\* number of tokens at indices below rawCursor whose type is not elided; the
\* EOF token is never counted.
C28_CursorCountsNonElided ==
    pc = "lexer" =>
        /\ p.cursor = NonElidedIn(p, 0, p.rawCursor - 1)
        /\ \A i \in 0..(p.rawCursor - 1) : ~IsEOF(TokenAt(p, i))

\* C28 witness: a checkpoint taken after elided and other tokens were passed
\* has been loaded back from a later position.
C28_Witness ==
    /\ Called("LoadCheckpoint")
    /\ p.cursor > 0 /\ p.rawCursor > p.cursor
    /\ prev.rawCursor > p.rawCursor /\ prev.cursor > p.cursor

\* The operations that return a token.
Readers == {"Peek", "RawPeek", "Next", "PeekAny"}

\* C29: for every token stream that ends in EOF and every argument r >= 0 of
\* FastForward, also one beyond the end of the token array, no sequence of
\* Peek, RawPeek, Next, PeekAny and FastForward reads the token array out of
\* bounds: the cursors never exceed the index of the EOF token, which is the
\* last of the array, and every token returned is one of the array.
C29_NoReadOutOfBounds ==
    pc = "lexer" =>
        /\ 0 <= p.rawCursor /\ p.rawCursor <= p.nextCursor
        /\ p.nextCursor <= EOFIndex(p)
        /\ IsEOF(TokenAt(p, EOFIndex(p)))
        /\ ret.op \in Readers =>
               /\ ret.t # OutOfRange
               /\ ret.rawCursor \in 0..EOFIndex(p)
               /\ ret.t = TokenAt(p, ret.rawCursor)

\* C29 witness: FastForward with an argument beyond the end of the token
\* array, from a position before the EOF token, stops on EOF.
C29_Witness ==
    /\ Called("FastForward")
    /\ ret.rawCursor > EOFIndex(prev)
    /\ prev.nextCursor < EOFIndex(prev)
    /\ p.rawCursor = EOFIndex(p) /\ p.nextCursor = EOFIndex(p)
====
